---- MODULE Spec2Model ----
(***************************************************************************)
(* Chunk generation server (chunk store, generation queue and worker, HTTP *)
(* handlers) of worldlab-hack, as a state machine.                         *)
(*                                                                         *)
(* The server is one Node.js process: every HTTP handler and every stretch *)
(* of an async function between two awaits runs to completion, so each is  *)
(* one action.  A promise continuation (the catch block of generateChunk,  *)
(* the .finally callback of drainQueue) is a microtask and runs before any *)
(* other handler, timer or job, so it belongs to the action that resolved  *)
(* the promise.                                                            *)
(***************************************************************************)
EXTENDS Integers, Sequences, FiniteSets, Bags, TLC

(***************************************************************************)
(* Bounds of the model.                                                    *)
(***************************************************************************)
\* the clock advances MaxTicks times
MaxTicks == 2
\* rows inserted by GET /api/chunk
MaxInserts == 3
\* setTimeout(drainQueue, ...) callbacks pending at once
MaxTimers == 2

(***************************************************************************)
(* Program constants.                                                      *)
(***************************************************************************)
MAX_CONCURRENT_GENERATIONS == 1
\* const backoffSec = 60
backoffSec == 60
\* the clock advances by half the backoff
TickSec == backoffSec \div 2
MaxTime == MaxTicks * TickSec

\* The chunk keys (x, y, prompt) the clients ask for: two neighbors of one
\* world, or one coordinate of two worlds.
Key(x, y, p) == [x |-> x, y |-> y, prompt |-> p]
KeySets == {{Key(0, 0, "P"), Key(1, 0, "P")}, {Key(0, 0, "P"), Key(0, 0, "Q")}}
Prompts == {"P", "Q"}

NEIGHBOR_OFFSETS ==
  << [dx |-> -1, dy |-> 0, label |-> "left"],
     [dx |-> 1, dy |-> 0, label |-> "right"],
     [dx |-> 0, dy |-> -1, label |-> "below"],
     [dx |-> 0, dy |-> 1, label |-> "above"] >>

(***************************************************************************)
(* State.                                                                  *)
(*   keys      the keys the clients of this run ask for.                   *)
(*   db        the chunks table: key -> row, NoRow where there is none.    *)
(*             A row holds status, operation_id (op: set or null),         *)
(*             spz_path (spz: set or null), pano_url (pano: set or null);  *)
(*   generationQueue, activeGenerations, rateLimitBackoffUntil, apiError   *)
(*             the queue state of the process.                             *)
(*   jobs      the generateChunk calls in flight, each at an await; id is  *)
(*             the slot of the call among those in flight.                 *)
(*             A queue entry and a job carry a history field stale: the    *)
(*             row whose insert enqueued it has since been deleted.        *)
(*   timers    the pending setTimeout(drainQueue, waitMs) callbacks, a bag *)
(*             of due times.                                               *)
(*   disk      the database file: the table as saveDB wrote it last.       *)
(*   now       Date.now(), in seconds.                                     *)
(*   keySet    whether WORLDLABS_API_KEY is configured.                    *)
(*   inserts   history: the number of rows inserted so far.                *)
(*   last      history: the last operation, its outcome, the number of     *)
(*             jobs it started, whether it updated a row on behalf of      *)
(*             the job enqueued by that row's insert ("owner") or of       *)
(*             another job ("stale"), and whether x and y in the query of  *)
(*             a GET /api/chunk were integers.                             *)
(***************************************************************************)
VARIABLES keys, db, disk, generationQueue, activeGenerations, rateLimitBackoffUntil,
          apiError, jobs, timers, now, keySet, inserts, last

serverVars == << keys, db, disk, generationQueue, activeGenerations,
                 rateLimitBackoffUntil, apiError, jobs, timers, now, keySet, inserts,
                 last >>

(***************************************************************************)
(* State of the client, a ChunkManager in a browser.                       *)
(*   chunks, pendingLoads, failedLoads, wireframes, prompt, billingHalted  *)
(*             the fields of the ChunkManager; a key is the pair of the    *)
(*             coordinates, chunks maps the resident keys to their         *)
(*             ChunkState, failedLoads the failed keys to Date.now() at    *)
(*             the failure.                                                *)
(*   loads     the loadChunk calls in flight: key, prompt and the mesh     *)
(*             the call makes.                                             *)
(*   scene     the meshes of loadChunk that are in the scene.              *)
(*   date      Date.now(), in milliseconds.                                *)
(*   dispatched  history: the number of loadChunk calls so far.            *)
(*   failedAt  history: for a key whose last load failed less than the     *)
(*             cooldown ago, when it failed and whether purgeAll has run   *)
(*             since.                                                      *)
(*   clientLast  history: the last operation of the client; of an update   *)
(*             or preloadGrid the viewer's key, the keys it called         *)
(*             loadChunk for and its dt; of a load's outcome the key; of   *)
(*             purgeAll, changePrompt and reloadActiveChunks the keys that *)
(*             were resident.                                              *)
(*   updates   history: the number of update calls (counted in ZoneSpec).  *)
(*   poller    one loadChunk call that LoaderSpec follows through its      *)
(*             queries: where it is, the polls made, how it ended and,     *)
(*             as history, the response to its last query.                 *)
(*   fetchers  the PredictiveFetcher objects followed: lastPrediction and  *)
(*             frameCounter of each and, as history, the viewer and the    *)
(*             result of its last getPredictedChunks call.                 *)
(***************************************************************************)
VARIABLES chunks, pendingLoads, failedLoads, wireframes, prompt, billingHalted,
          loads, date, dispatched, failedAt, clientLast, updates, scene, poller,
          fetchers

clientVars == << chunks, pendingLoads, failedLoads, wireframes, prompt, billingHalted,
                 loads, date, dispatched, failedAt, clientLast, updates, scene, poller,
                 fetchers >>

\* The POST /api/clear-error requests of the client that are on their way
\* to the server.
VARIABLE posts

vars == << serverVars, clientVars, posts >>

NoMap == [k \in {} |-> 0]
\* no PredictiveFetcher is followed
NoFetchers == << >>
\* no loadChunk call is followed
NoPoll == [pc |-> "idle", polls |-> 0, outcome |-> "none", resp |-> << >>]
CLast(op, key) ==
  [op |-> op, key |-> key, sent |-> << >>, retried |-> {}, dt |-> 0, predicted |-> << >>]

\* no client
ClientOff ==
  /\ chunks = NoMap /\ pendingLoads = {} /\ failedLoads = NoMap /\ wireframes = {}
  /\ prompt = "" /\ billingHalted = FALSE /\ loads = EmptyBag /\ date = 0
  /\ dispatched = 0 /\ failedAt = NoMap /\ clientLast = CLast("step", << >>)
  /\ updates = 0 /\ scene = {} /\ posts = 0 /\ poller = NoPoll
  /\ fetchers = NoFetchers

Row(status, op, spz, pano) ==
  [status |-> status, op |-> op, spz |-> spz, pano |-> pano]
NoRow == Row("none", FALSE, FALSE, FALSE)

\* The process state the functions of the server read and write; started
\* counts the jobs the running operation has started.
Cur ==
  [db |-> db, disk |-> disk, queue |-> generationQueue, active |-> activeGenerations,
   backoff |-> rateLimitBackoffUntil, apiError |-> apiError, jobs |-> jobs,
   timers |-> timers, inserts |-> inserts, started |-> 0, wrote |-> "none"]

Last(op, k, code, status, err) ==
  [op |-> op, key |-> k, code |-> code, status |-> status, err |-> err,
   started |-> 0, wrote |-> "none", integer |-> TRUE]

\* the assignments of an operation of the server
Store(s, l) ==
  /\ db' = s.db
  /\ disk' = s.disk
  /\ generationQueue' = s.queue
  /\ activeGenerations' = s.active
  /\ rateLimitBackoffUntil' = s.backoff
  /\ apiError' = s.apiError
  /\ jobs' = s.jobs
  /\ timers' = s.timers
  /\ inserts' = s.inserts
  /\ last' = [l EXCEPT !.started = s.started, !.wrote = s.wrote]
  /\ BagCardinality(timers') <= MaxTimers
  /\ inserts' <= MaxInserts
  /\ UNCHANGED << keys, now, keySet >>

Write(s, l) == Store(s, l) /\ UNCHANGED clientVars

\* an operation of the server that no request of the modelled client starts
Commit(s, l) == Write(s, l) /\ UNCHANGED posts

(***************************************************************************)
(* Chunk store.                                                            *)
(***************************************************************************)
\* saveDB without the write of the file
saveDB_NoWrite(s) == s

\* db.export() written to DB_PATH
saveDB(s) == [s EXCEPT !.disk = s.db]

dbGet(d, k) == d[k]

dbInsertIfAbsent(d, k) ==
  IF dbGet(d, k) # NoRow
  THEN [db |-> d, inserted |-> FALSE]
  ELSE [db |-> [d EXCEPT ![k] = Row("generating", FALSE, FALSE, FALSE)],
        inserted |-> TRUE]

\* UPDATE ... WHERE x = ? AND y = ? AND prompt = ?: no row, no change.
dbUpdate(d, k, status, op, spz, pano) ==
  IF d[k] = NoRow THEN d
  ELSE [d EXCEPT ![k] = Row(status, op, spz, pano)]

dbDelete(d, k) == [d EXCEPT ![k] = NoRow]

dbGetNeighbor(d, x, y, p) ==
  LET k == Key(x, y, p) IN
  IF k \in DOMAIN d /\ d[k].status = "completed" /\ d[k].pano THEN d[k] ELSE NoRow

(***************************************************************************)
(* Continuity seeding: the scan of getEdgeImageForChunk.                   *)
(***************************************************************************)
\* The first offset at or after `from` whose neighbor is completed with a
\* panorama (0: none): the loop runs without an await until it finds one.
\* NextNeighbor that takes the last offset with such a neighbor
NextNeighbor_Last(d, k, from) ==
  LET hits == {i \in from..Len(NEIGHBOR_OFFSETS) :
                 dbGetNeighbor(d, k.x + NEIGHBOR_OFFSETS[i].dx,
                               k.y + NEIGHBOR_OFFSETS[i].dy, k.prompt) # NoRow}
  IN IF hits = {} THEN 0 ELSE CHOOSE i \in hits : \A h \in hits : i >= h

NextNeighbor(d, k, from) ==
  LET hits == {i \in from..Len(NEIGHBOR_OFFSETS) :
                 dbGetNeighbor(d, k.x + NEIGHBOR_OFFSETS[i].dx,
                               k.y + NEIGHBOR_OFFSETS[i].dy, k.prompt) # NoRow}
  IN IF hits = {} THEN 0 ELSE CHOOSE i \in hits : \A h \in hits : i <= h

(***************************************************************************)
(* Generation queue and worker.                                            *)
(***************************************************************************)
NoError == "null"
Halt402 == "HTTP 402 - Payment Required (out of API credits)"

\* A job at its first await: the panorama fetch of extractEdgeImage when a
\* neighbor qualifies, else the provider's start call.
generateChunkBegin(d, entry, id) ==
  LET nb == NextNeighbor(d, entry.key, 1) IN
  [id |-> id, key |-> entry.key, stale |-> entry.stale,
   pc |-> IF nb = 0 THEN "starting" ELSE "seeding",
   nb |-> nb, edge |-> "none", pano |-> FALSE]

FreeSlot(js) == CHOOSE i \in 1..(Cardinality(js) + 1) : \A j \in js : j.id # i

\* drainLoop with the cap compared by <= (one job too many)
RECURSIVE drainLoop_OverCap(_, _)
drainLoop_OverCap(s, t) ==
  IF s.active <= MAX_CONCURRENT_GENERATIONS /\ Len(s.queue) > 0
  THEN IF t < s.backoff
       THEN [s EXCEPT !.timers = @ (+) SetToBag({s.backoff})]
       ELSE drainLoop_OverCap([s EXCEPT !.queue = Tail(@),
                                        !.active = @ + 1,
                                        !.jobs = @ \cup {generateChunkBegin(s.db, Head(s.queue),
                                                                            FreeSlot(s.jobs))},
                                        !.started = @ + 1],
                              t)
  ELSE s

\* drainLoop without the backoff check
RECURSIVE drainLoop_NoBackoff(_, _)
drainLoop_NoBackoff(s, t) ==
  IF s.active < MAX_CONCURRENT_GENERATIONS /\ Len(s.queue) > 0
  THEN drainLoop_NoBackoff([s EXCEPT !.queue = Tail(@),
                                     !.active = @ + 1,
                                     !.jobs = @ \cup {generateChunkBegin(s.db, Head(s.queue),
                                                                         FreeSlot(s.jobs))},
                                     !.started = @ + 1],
                           t)
  ELSE s

RECURSIVE drainLoop(_, _)
drainLoop(s, t) ==
  IF s.active < MAX_CONCURRENT_GENERATIONS /\ Len(s.queue) > 0
  THEN IF t < s.backoff
       THEN [s EXCEPT !.timers = @ (+) SetToBag({s.backoff})]
       ELSE drainLoop([s EXCEPT !.queue = Tail(@),
                                !.active = @ + 1,
                                !.jobs = @ \cup {generateChunkBegin(s.db, Head(s.queue),
                                                                    FreeSlot(s.jobs))},
                                !.started = @ + 1],
                      t)
  ELSE s

\* drainQueue without the halt check
drainQueue_NoHalt(s, t) == drainLoop(s, t)

drainQueue(s, t) ==
  IF s.apiError # NoError
  THEN [s EXCEPT !.queue = << >>]
  ELSE drainLoop(s, t)

\* enqueueGeneration without the check for a queued key
enqueueGeneration_NoDedup(s, k, t) ==
  drainQueue([s EXCEPT !.queue = Append(@, [key |-> k, stale |-> FALSE])], t)

\* enqueueGeneration that drains also when the key is queued already
enqueueGeneration_DrainOnDup(s, k, t) ==
  IF \E i \in 1..Len(s.queue) : s.queue[i].key = k
  THEN drainQueue(s, t)
  ELSE drainQueue([s EXCEPT !.queue = Append(@, [key |-> k, stale |-> FALSE])], t)

enqueueGeneration(s, k, t) ==
  IF \E i \in 1..Len(s.queue) : s.queue[i].key = k
  THEN s
  ELSE drainQueue([s EXCEPT !.queue = Append(@, [key |-> k, stale |-> FALSE])], t)

\* What a failed await throws: the HTTP status of the response (0: none) and
\* whether the message text contains "402" / "429".
Err(status, m402, m429) == [status |-> status, m402 |-> m402, m429 |-> m429]
\* axios: "Request failed with status code <n>"
HttpErr(n) == Err(n, n = 402, n = 429)
\* no response (network), "No SPZ URL returned from API", a failed file write
PlainErr == Err(0, FALSE, FALSE)
\* What the start call, a poll or the download throws: an HTTP failure, or a
\* provider-reported generation error, whose message quotes the provider's
\* text (here: text with both numbers in it).  A failure without a response
\* is classified like HTTP 500.
Errors == {HttpErr(402), HttpErr(429), HttpErr(500), Err(0, TRUE, TRUE)}

is402(err) == err.m402 \/ err.status = 402
is429(err) == err.m429 \/ err.status = 429

\* a dbUpdate of generateChunk; history: on whose behalf the row is updated
jobUpdate(s, j, status, op, spz, pano) ==
  saveDB([s EXCEPT !.db = dbUpdate(@, j.key, status, op, spz, pano),
                   !.wrote = IF s.db[j.key] = NoRow THEN @
                             ELSE IF j.stale THEN "stale" ELSE "owner"])

\* catchBlock that tests for 429 before 402
catchBlock_429First(s, j, err, t) ==
  LET s1 == IF is429(err) THEN [s EXCEPT !.backoff = t + backoffSec]
            ELSE IF is402(err) THEN [s EXCEPT !.apiError = Halt402]
            ELSE s
      errStatus == IF is402(err) THEN "billing_error" ELSE "error"
  IN jobUpdate(s1, j, errStatus, FALSE, FALSE, FALSE)

\* the catch block of generateChunk
catchBlock(s, j, err, t) ==
  LET s1 == IF is402(err) THEN [s EXCEPT !.apiError = Halt402]
            ELSE IF is429(err) THEN [s EXCEPT !.backoff = t + backoffSec]
            ELSE s
      errStatus == IF is402(err) THEN "billing_error" ELSE "error"
  IN jobUpdate(s1, j, errStatus, FALSE, FALSE, FALSE)

\* finallyBlock that does not call drainQueue again
finallyBlock_NoDrain(s, j, t) ==
  [s EXCEPT !.active = @ - 1, !.jobs = @ \ {j}]

\* the .finally callback of drainQueue
finallyBlock(s, j, t) ==
  drainQueue([s EXCEPT !.active = @ - 1, !.jobs = @ \ {j}], t)

\* History: the rows of the keys ks are deleted, so what was enqueued by
\* their inserts is stale from now on.
MarkStale(s, ks) ==
  [s EXCEPT !.queue = [i \in 1..Len(@) |->
                         IF @[i].key \in ks THEN [@[i] EXCEPT !.stale = TRUE] ELSE @[i]],
            !.jobs = {IF j.key \in ks THEN [j EXCEPT !.stale = TRUE] ELSE j : j \in @}]

NoKey == Key(0, 0, "")
Did(op) == Last(op, NoKey, 0, "", PlainErr)

(***************************************************************************)
(* Job steps: each resumes generateChunk at the await it is suspended at.  *)
(***************************************************************************)
\* extractEdgeImage returned the strip
SeedOk(j) ==
  /\ j \in jobs /\ j.pc = "seeding"
  /\ Commit([Cur EXCEPT !.jobs = (@ \ {j}) \cup
               {[j EXCEPT !.pc = "starting", !.edge = NEIGHBOR_OFFSETS[j.nb].label]}],
            Did("step"))

\* SeedFail where the failure of extractEdgeImage reaches the catch block of
\* generateChunk
SeedFail_Throws(j) ==
  /\ j \in jobs /\ j.pc = "seeding"
  /\ Commit(finallyBlock(catchBlock(Cur, j, PlainErr, now), j, now),
            Last("fail", j.key, 0, "", PlainErr))

\* extractEdgeImage threw: the loop goes on with the next offset
SeedFail(j) ==
  /\ j \in jobs /\ j.pc = "seeding"
  /\ LET nb == NextNeighbor(db, j.key, j.nb + 1) IN
     Commit([Cur EXCEPT !.jobs = (@ \ {j}) \cup
               {[j EXCEPT !.pc = IF nb = 0 THEN "starting" ELSE "seeding", !.nb = nb]}],
            Did("step"))

\* startGeneration returned the operation; dbUpdate(..., "generating", ...)
\* (saved: whether its saveDB succeeded; if not, the file is as it was and
\* the catch block runs), then the first poll
StartOk(j, saved) ==
  /\ j \in jobs /\ j.pc = "starting"
  /\ LET s0 == jobUpdate(Cur, j, "generating", TRUE, FALSE, FALSE)
         s1 == IF saved THEN s0 ELSE [s0 EXCEPT !.disk = disk]
     IN IF saved
        THEN Commit([s1 EXCEPT !.jobs = (@ \ {j}) \cup
                       {[j EXCEPT !.pc = "polling", !.edge = "none", !.nb = 0]}],
                    Did("step"))
        ELSE Commit(finallyBlock(catchBlock(s1, j, PlainErr, now), j, now),
                    Last("fail", j.key, 0, "", PlainErr))

\* the operation is done without error
PollDone(j, hasSpz, hasPano) ==
  /\ j \in jobs /\ j.pc = "polling"
  /\ IF hasSpz
     THEN Commit([Cur EXCEPT !.jobs = (@ \ {j}) \cup
                    {[j EXCEPT !.pc = "downloading", !.pano = hasPano]}],
                 Did("step"))
     ELSE Commit(finallyBlock(catchBlock(Cur, j, PlainErr, now), j, now),
                 Last("fail", j.key, 0, "", PlainErr))

\* the asset is downloaded; dbUpdate(..., "completed", ...)
DownloadOk(j, saved) ==
  /\ j \in jobs /\ j.pc = "downloading"
  /\ LET s0 == jobUpdate(Cur, j, "completed", TRUE, TRUE, j.pano)
         s1 == IF saved THEN s0 ELSE [s0 EXCEPT !.disk = disk]
     IN IF saved
        THEN Commit(finallyBlock(s1, j, now), Last("done", j.key, 0, "", PlainErr))
        ELSE Commit(finallyBlock(catchBlock(s1, j, PlainErr, now), j, now),
                    Last("fail", j.key, 0, "", PlainErr))

\* the start call, a poll or the download threw
JobFail(j, err) ==
  /\ j \in jobs /\ j.pc \in {"starting", "polling", "downloading"}
  /\ Commit(finallyBlock(catchBlock(Cur, j, err, now), j, now),
            Last("fail", j.key, 0, "", err))

(***************************************************************************)
(* HTTP handlers.                                                          *)
(***************************************************************************)
\* A query parameter is a string, here the sequence of its characters; the
\* values of x and of y the clients send.
RawX == { << "0" >>, << "1" >>, << "1", ".", "5" >>, << "a" >> }
RawY == { << "0" >>, << "a" >> }

Digits ==
  ("0" :> 0) @@ ("1" :> 1) @@ ("2" :> 2) @@ ("3" :> 3) @@ ("4" :> 4) @@
  ("5" :> 5) @@ ("6" :> 6) @@ ("7" :> 7) @@ ("8" :> 8) @@ ("9" :> 9)

NaN == [nan |-> TRUE, val |-> 0]
isNaN(n) == n.nan

\* the value of the digits s[i..] starts with, after the value acc of those
\* before them
RECURSIVE parseDigits(_, _, _)
parseDigits(s, i, acc) ==
  IF i <= Len(s) /\ s[i] \in DOMAIN Digits
  THEN parseDigits(s, i + 1, 10 * acc + Digits[s[i]])
  ELSE acc

\* History: the string is an integer, an optional sign and digits only.
IsInteger(s) ==
  LET first == IF Len(s) > 0 /\ s[1] \in {"-", "+"} THEN 2 ELSE 1
  IN first <= Len(s) /\ \A i \in first..Len(s) : s[i] \in DOMAIN Digits

\* parseInt(s, 10): an optional sign and the digits that follow it, whatever
\* comes after them; NaN when there is no digit
parseInt(s) ==
  LET neg == Len(s) > 0 /\ s[1] = "-"
      first == IF Len(s) > 0 /\ s[1] \in {"-", "+"} THEN 2 ELSE 1
      n == parseDigits(s, first, 0)
  IN IF first > Len(s) \/ s[first] \notin DOMAIN Digits
     THEN NaN
     ELSE [nan |-> FALSE, val |-> IF neg THEN -n ELSE n]

\* The handler of GET /api/chunk?x=rx&y=ry&prompt=p: the state it leaves
\* (s) and its answer (l); known: the key is one of the keys of this run.
getChunk(rx, ry, p) ==
  LET x == parseInt(rx)
      y == parseInt(ry)
      k == Key(x.val, y.val, p)
      Answer(code, status) ==
        [Last("chunk", k, code, status, PlainErr)
           EXCEPT !.integer = IsInteger(rx) /\ IsInteger(ry)]
      existing == dbGet(db, k)
      retry == existing.status = "error"
      s0 == IF retry THEN saveDB(MarkStale([Cur EXCEPT !.db = dbDelete(@, k)], {k}))
            ELSE Cur
      ins == dbInsertIfAbsent(s0.db, k)
      s1 == IF ins.inserted
            THEN saveDB([s0 EXCEPT !.db = ins.db, !.inserts = @ + 1])
            ELSE s0
      Out(s, l) == [known |-> TRUE, s |-> s, l |-> l]
  IN
  IF isNaN(x) \/ isNaN(y)
  THEN Out(Cur, [Last("chunk", NoKey, 400, "", PlainErr) EXCEPT !.integer = FALSE])
  ELSE IF k \notin keys
  THEN [known |-> FALSE, s |-> Cur, l |-> Did("chunk")]
  ELSE IF ~keySet
  THEN Out(Cur, Answer(503, "error"))
  ELSE IF apiError # NoError
  THEN Out(Cur, Answer(402, "billing_error"))
  ELSE IF existing.status \in {"completed", "generating"}
  THEN Out(Cur, Answer(200, existing.status))
  ELSE IF existing.status = "billing_error"
  THEN Out(Cur, Answer(402, "billing_error"))
  ELSE IF ~ins.inserted
  THEN Out(s1, Answer(200, "generating"))
  ELSE Out(enqueueGeneration(s1, k, now), Answer(200, "started"))

\* GET /api/chunk?x=rx&y=ry&prompt=p, for the keys of this run
GetChunk(rx, ry, p) ==
  LET g == getChunk(rx, ry, p)
  IN g.known /\ Commit(g.s, g.l)

\* the body of a reset without a prompt
NoPrompt == "undefined"
\* the values of prompt in the body of a reset
ResetPrompts == Prompts \cup {NoPrompt, ""}
\* if (prompt !== undefined)
Truthy_Defined(p) == p # NoPrompt

\* if (prompt): undefined and the empty string are falsy
Truthy(p) == p \notin {NoPrompt, ""}

\* POST /api/chunks/reset {prompt?}
ResetChunks(p) ==
  LET gone == {k \in keys : ~Truthy(p) \/ k.prompt = p} IN
  Commit(saveDB(MarkStale([Cur EXCEPT !.db = [k \in keys |->
                                                 IF k \in gone THEN NoRow ELSE @[k]]],
                          {k \in gone : db[k] # NoRow})),
         Last("reset", Key(0, 0, p), 0, "", PlainErr))

\* the handler that leaves the rows
clearError_KeepRows(s) == [s EXCEPT !.apiError = NoError]

\* the handler of POST /api/clear-error
clearError(s) ==
  LET gone == {k \in keys : s.db[k].status = "billing_error"} IN
  IF s.apiError # NoError
  THEN saveDB(MarkStale([s EXCEPT !.apiError = NoError,
                                  !.db = [k \in keys |->
                                            IF k \in gone THEN NoRow ELSE @[k]]],
                        gone))
  ELSE s

\* POST /api/clear-error of any client
ClearError == Commit(clearError(Cur), Did("clear"))

\* POST /api/clear-error of changePrompt arrives
ClearErrorPost ==
  /\ posts > 0
  /\ posts' = posts - 1
  /\ Write(clearError(Cur), Did("clear"))

(***************************************************************************)
(* Clock and timers.                                                       *)
(***************************************************************************)
Tick ==
  /\ now + TickSec <= MaxTime
  /\ now' = now + TickSec
  /\ last' = Did("step")
  /\ UNCHANGED << keys, db, disk, generationQueue, activeGenerations,
                  rateLimitBackoffUntil, apiError, jobs, timers, keySet, inserts >>
  /\ UNCHANGED << clientVars, posts >>

\* a setTimeout(drainQueue, waitMs) callback runs, not before it is due
TimerFire(due) ==
  /\ BagIn(due, timers) /\ now >= due
  /\ Commit(drainQueue([Cur EXCEPT !.timers = @ (-) SetToBag({due})], now), Did("step"))

(***************************************************************************)
(* Start of the first process: no database file, main() has run.           *)
(***************************************************************************)
Init ==
  /\ keys \in KeySets
  /\ db = [k \in keys |-> NoRow]
  /\ disk = db
  /\ generationQueue = << >>
  /\ activeGenerations = 0
  /\ rateLimitBackoffUntil = 0
  /\ apiError = NoError
  /\ jobs = {}
  /\ timers = EmptyBag
  /\ now = 0
  /\ keySet \in BOOLEAN
  /\ inserts = 0
  /\ last = Did("main")
  /\ ClientOff

\* the process exits (crash or signal) and main() runs again: initDB reads
\* the file, the cleanup deletes rows and saveDB writes the file
Restart ==
  /\ db' = [k \in keys |-> IF disk[k].status \in {"generating", "error", "pending"}
                           THEN NoRow ELSE disk[k]]
  /\ disk' = db'
  /\ generationQueue' = << >>
  /\ activeGenerations' = 0
  /\ rateLimitBackoffUntil' = 0
  /\ apiError' = NoError
  /\ jobs' = {}
  /\ timers' = EmptyBag
  /\ last' = Did("main")
  /\ UNCHANGED << keys, now, keySet, inserts >>
  /\ UNCHANGED << clientVars, posts >>

Next ==
  \/ \E rx \in RawX, ry \in RawY, p \in Prompts : GetChunk(rx, ry, p)
  \/ \E p \in ResetPrompts : ResetChunks(p)
  \/ ClearError
  \/ \E j \in jobs : SeedOk(j)
  \/ \E j \in jobs : SeedFail(j)
  \/ \E j \in jobs, saved \in BOOLEAN : StartOk(j, saved)
  \/ \E j \in jobs, hasSpz \in BOOLEAN, hasPano \in BOOLEAN : PollDone(j, hasSpz, hasPano)
  \/ \E j \in jobs, saved \in BOOLEAN : DownloadOk(j, saved)
  \/ \E j \in jobs, err \in Errors : JobFail(j, err)
  \/ Tick
  \/ \E due \in BagToSet(timers) : TimerFire(due)

\* one process lifetime
Spec == Init /\ [][Next]_vars

\* any number of process lifetimes
SpecRestart == Init /\ [][Next \/ Restart]_vars

(***************************************************************************)
(* The process while the provider never answers 402: every provider call   *)
(* of a job returns or throws, every timer fires when it is due, and the   *)
(* clock goes on.  A rate limit is answered only while the clock of the    *)
(* run reaches the end of its backoff.                                     *)
(***************************************************************************)
LiveErrors == {HttpErr(429), HttpErr(500)}

JobStep(j) ==
  \/ SeedOk(j)
  \/ SeedFail(j)
  \/ \E saved \in BOOLEAN : StartOk(j, saved)
  \/ \E hasSpz \in BOOLEAN, hasPano \in BOOLEAN : PollDone(j, hasSpz, hasPano)
  \/ \E saved \in BOOLEAN : DownloadOk(j, saved)
  \/ \E err \in LiveErrors :
       /\ is429(err) => now + backoffSec <= MaxTime
       /\ JobFail(j, err)

LiveNext ==
  \/ \E rx \in RawX, ry \in RawY, p \in Prompts : GetChunk(rx, ry, p)
  \/ \E p \in ResetPrompts : ResetChunks(p)
  \/ \E j \in jobs : JobStep(j)
  \/ Tick
  \/ \E due \in BagToSet(timers) : TimerFire(due)

LiveSpec ==
  /\ Init /\ [][LiveNext]_vars
  /\ WF_vars(\E j \in jobs : JobStep(j))
  /\ WF_vars(Tick)
  /\ WF_vars(\E due \in BagToSet(timers) : TimerFire(due))

(***************************************************************************)
(* A job that starts among the rows of its four neighbors: the state the   *)
(* process is in when drainQueue has started the job of SeedTarget, the    *)
(* jobs of the neighbors whose row is generating being queued behind it.   *)
(***************************************************************************)
SeedTarget == Key(1, 1, "P")
NeighborKey(k, i) ==
  Key(k.x + NEIGHBOR_OFFSETS[i].dx, k.y + NEIGHBOR_OFFSETS[i].dy, k.prompt)
SeedNeighbors == [i \in 1..Len(NEIGHBOR_OFFSETS) |-> NeighborKey(SeedTarget, i)]
\* the row at the left of the target in another world
SeedOther == Key(0, 1, "Q")
SeedKeys == {SeedTarget, SeedOther} \cup {SeedNeighbors[i] : i \in DOMAIN SeedNeighbors}

\* the rows a job can find at a neighbor
SeedRows ==
  {NoRow, Row("generating", FALSE, FALSE, FALSE), Row("error", FALSE, FALSE, FALSE),
   Row("billing_error", FALSE, FALSE, FALSE), Row("completed", TRUE, TRUE, FALSE),
   Row("completed", TRUE, TRUE, TRUE)}

SeedQueue(d) ==
  LET waiting == SelectSeq(SeedNeighbors, LAMBDA k : d[k].status = "generating")
  IN [i \in 1..Len(waiting) |-> [key |-> waiting[i], stale |-> FALSE]]

SeedInit ==
  /\ keys = SeedKeys
  /\ db \in {d \in [SeedKeys -> SeedRows] :
               /\ d[SeedTarget] = Row("generating", FALSE, FALSE, FALSE)
               /\ d[SeedOther] \in {NoRow, Row("completed", TRUE, TRUE, TRUE)}}
  /\ disk = db
  /\ generationQueue = SeedQueue(db)
  /\ activeGenerations = 1
  /\ rateLimitBackoffUntil = 0
  /\ apiError = NoError
  /\ jobs = {generateChunkBegin(db, [key |-> SeedTarget, stale |-> FALSE], 1)}
  /\ timers = EmptyBag
  /\ now = 0
  /\ keySet = TRUE
  /\ inserts = 0
  /\ last = [Did("step") EXCEPT !.started = 1]
  /\ ClientOff

SeedNext ==
  \/ \E j \in jobs : SeedOk(j)
  \/ \E j \in jobs : SeedFail(j)

\* the seeding of one job
SeedSpec == SeedInit /\ [][SeedNext]_vars

(***************************************************************************)
(* The client: ChunkManager.  Its methods and the callbacks of its         *)
(* loadChunk promises run to completion on the browser's one thread.       *)
(***************************************************************************)
RETRY_COOLDOWN_MS == 10000
MAX_PENDING_LOADS == 1
PRELOAD_RADIUS == 1
ZONE_CACHED == 3
ZONE_ACTIVE == 1
\* alpha units per second
FADE_SPEED == 6
\* fade values are counted in 1/FadeUnit, times in 1/TimeUnit s
FadeUnit == 10000
TimeUnit == 10000
\* Math.min(0.1, ...)
MaxDt == TimeUnit \div 10
\* mesh.userData.fade == null
NoFade == -1
\* splatMesh: null
NoMesh == 0

\* loadChunk is called MaxLoads times
MaxLoads == 2
\* the client's clock advances MaxDateTicks times
MaxDateTicks == 2
\* the clock advances by half the cooldown, from a time that is not 0
DateTickMs == RETRY_COOLDOWN_MS \div 2
Date0 == DateTickMs
MaxDate == Date0 + MaxDateTicks * DateTickMs

\* no server
ServerOff ==
  /\ keys = {} /\ db = NoMap /\ disk = NoMap /\ generationQueue = << >>
  /\ activeGenerations = 0 /\ rateLimitBackoffUntil = 0 /\ apiError = NoError
  /\ jobs = {} /\ timers = EmptyBag /\ now = 0 /\ keySet = TRUE /\ inserts = 0
  /\ last = Did("main")

\* `${x},${y}`
chunkKey(x, y) == << x, y >>

\* controller.getChunkCoords(): the chunk of a viewer that stays in it (the
\* viewer of ZoneSpec moves)
ViewerCoords == { << 0, 0 >> }
\* what fetcher.getPredictedChunks(controller) returns
PredictedLists == { << >>, << << 2, 0 >> >> }
\* the time between two updates: a quarter of a second
ClientElapsed == { TimeUnit \div 4 }

Abs(n) == IF n < 0 THEN -n ELSE n
dist(ax, ay, bx, by) ==
  IF Abs(ax - bx) >= Abs(ay - by) THEN Abs(ax - bx) ELSE Abs(ay - by)

Put(f, k, v) == [x \in DOMAIN f \cup {k} |-> IF x = k THEN v ELSE f[x]]
Remove(f, ks) == [x \in DOMAIN f \ ks |-> f[x]]

\* The fields the methods read and write; sent lists the keys the running
\* operation has called loadChunk for, retried those of them that had an
\* entry in failedLoads.
CCur ==
  [chunks |-> chunks, pendingLoads |-> pendingLoads, failedLoads |-> failedLoads,
   wireframes |-> wireframes, prompt |-> prompt, billingHalted |-> billingHalted,
   loads |-> loads, dispatched |-> dispatched, failedAt |-> failedAt, scene |-> scene,
   sent |-> << >>,
   retried |-> {}, dt |-> 0]

CWrite(c, l) ==
  /\ chunks' = c.chunks
  /\ pendingLoads' = c.pendingLoads
  /\ failedLoads' = c.failedLoads
  /\ wireframes' = c.wireframes
  /\ prompt' = c.prompt
  /\ billingHalted' = c.billingHalted
  /\ loads' = c.loads
  /\ scene' = c.scene
  /\ dispatched' = c.dispatched
  /\ failedAt' = c.failedAt
  /\ clientLast' = [l EXCEPT !.sent = c.sent, !.retried = c.retried, !.dt = c.dt]
  /\ dispatched' <= MaxLoads
  /\ UNCHANGED << date, poller, fetchers >>
  /\ UNCHANGED serverVars

\* an operation that is not counted in updates and sends no request to the
\* modelled server
CCommit(c, l) == CWrite(c, l) /\ UNCHANGED << updates, posts >>

\* the call of loadChunk and what requestChunk does before it
dispatch(c, key) ==
  [c EXCEPT !.pendingLoads = @ \cup {key},
            !.failedLoads = Remove(@, {key}),
            !.wireframes = @ \cup {key},
            !.loads = @ (+) SetToBag({[key |-> key, prompt |-> c.prompt,
                                       mesh |-> c.dispatched + 1]}),
            !.dispatched = @ + 1,
            !.sent = Append(@, key),
            !.retried = @ \cup ({key} \cap DOMAIN c.failedLoads)]

\* if (failedAt && Date.now() - failedAt < RETRY_COOLDOWN_MS)
coolingDown(c, key, t) ==
  /\ key \in DOMAIN c.failedLoads
  /\ c.failedLoads[key] # 0
  /\ t - c.failedLoads[key] < RETRY_COOLDOWN_MS

\* requestChunk without the check of the pending cap
requestChunk_NoCap(c, x, y, t) ==
  LET key == chunkKey(x, y) IN
  IF c.billingHalted THEN c
  ELSE IF key \in DOMAIN c.chunks \/ key \in c.pendingLoads THEN c
  ELSE IF coolingDown(c, key, t) THEN c
  ELSE dispatch(c, key)

\* requestChunk that does not look for the key among the resident chunks
requestChunk_NoResident(c, x, y, t) ==
  LET key == chunkKey(x, y) IN
  IF c.billingHalted THEN c
  ELSE IF key \in c.pendingLoads THEN c
  ELSE IF coolingDown(c, key, t) THEN c
  ELSE IF Cardinality(c.pendingLoads) >= MAX_PENDING_LOADS THEN c
  ELSE dispatch(c, key)

\* requestChunk without the cooldown check
requestChunk_NoCooldown(c, x, y, t) ==
  LET key == chunkKey(x, y) IN
  IF c.billingHalted THEN c
  ELSE IF key \in DOMAIN c.chunks \/ key \in c.pendingLoads THEN c
  ELSE IF Cardinality(c.pendingLoads) >= MAX_PENDING_LOADS THEN c
  ELSE dispatch(c, key)

\* requestChunk without the check of billingHalted
requestChunk_NoHalt(c, x, y, t) ==
  LET key == chunkKey(x, y) IN
  IF key \in DOMAIN c.chunks \/ key \in c.pendingLoads THEN c
  ELSE IF coolingDown(c, key, t) THEN c
  ELSE IF Cardinality(c.pendingLoads) >= MAX_PENDING_LOADS THEN c
  ELSE dispatch(c, key)

requestChunk(c, x, y, t) ==
  LET key == chunkKey(x, y) IN
  IF c.billingHalted THEN c
  ELSE IF key \in DOMAIN c.chunks \/ key \in c.pendingLoads THEN c
  ELSE IF coolingDown(c, key, t) THEN c
  ELSE IF Cardinality(c.pendingLoads) >= MAX_PENDING_LOADS THEN c
  ELSE dispatch(c, key)

\* requestChunk for each coordinate of a list, in its order
RECURSIVE requestAll(_, _, _)
requestAll(c, coords, t) ==
  IF coords = << >> THEN c
  ELSE requestAll(requestChunk(c, Head(coords)[1], Head(coords)[2], t), Tail(coords), t)

\* for dx = -radius..radius, for dy = -radius..radius: (cx + dx, cy + dy)
Grid(cx, cy, radius) ==
  LET w == 2 * radius + 1 IN
  [i \in 1..(w * w) |-> << cx + ((i - 1) \div w) - radius, cy + ((i - 1) % w) - radius >>]

removeWireframe(c, key) == [c EXCEPT !.wireframes = @ \ {key}]
\* scene.remove(chunk.splatMesh) and its dispose(), chunks.delete(key)
purgeChunk(c, key) ==
  [c EXCEPT !.scene = @ \ {c.chunks[key].splatMesh}, !.chunks = Remove(@, {key})]

\* purgeChunk for every key of a set
RECURSIVE purgeChunks(_, _)
purgeChunks(c, ks) ==
  IF ks = {} THEN c
  ELSE LET key == CHOOSE k \in ks : TRUE
       IN purgeChunks(purgeChunk(c, key), ks \ {key})

\* what loadChunk resolves with
\* fade and visible are mesh.userData.fade and mesh.visible of its splatMesh
ChunkState(x, y, mesh) ==
  [x |-> x, y |-> y, splatMesh |-> mesh, zone |-> "active", loading |-> FALSE,
   fade |-> NoFade, visible |-> TRUE]

\* preloadGrid(controller, radius)
PreloadGrid(cx, cy, radius) ==
  CCommit(requestAll(CCur, Grid(cx, cy, radius), date), CLast("preload", << cx, cy >>))

Min(a, b) == IF a <= b THEN a ELSE b
Max(a, b) == IF a >= b THEN a ELSE b

\* desiredAlpha with the cached radius for the active one
desiredAlpha_Cached(d) == IF d <= ZONE_CACHED THEN FadeUnit ELSE 0

\* d <= ZONE_ACTIVE ? 1 : 0
desiredAlpha(d) == IF d <= ZONE_ACTIVE THEN FadeUnit ELSE 0

\* fadeStep with a step that is not clamped at the target
fadeStep_Overshoot(fade, desired, dt) ==
  LET f0 == IF fade = NoFade THEN FadeUnit ELSE fade
      step == (FADE_SPEED * dt * FadeUnit) \div TimeUnit
  IN IF f0 < desired THEN f0 + step
     ELSE IF f0 > desired THEN f0 - step
     ELSE f0

\* the fade after a frame of dt
fadeStep(fade, desired, dt) ==
  LET f0 == IF fade = NoFade THEN FadeUnit ELSE fade
      step == (FADE_SPEED * dt * FadeUnit) \div TimeUnit
  IN IF f0 < desired THEN Min(desired, f0 + step)
     ELSE IF f0 > desired THEN Max(desired, f0 - step)
     ELSE f0

\* newZone with the label following the target
newZone_Target(fade, zone) ==
  IF 2 * fade >= FadeUnit THEN "active" ELSE "cached"

\* fade >= 0.999 ? "active" : fade <= 0.001 ? "cached" : chunk.zone
newZone(fade, zone) ==
  IF 1000 * fade >= 999 * FadeUnit THEN "active"
  ELSE IF 1000 * fade <= FadeUnit THEN "cached"
  ELSE zone

\* the zone management of update for a chunk that is kept
fadeChunk(chunk, cx, cy, dt) ==
  LET f == fadeStep(chunk.fade, desiredAlpha(dist(chunk.x, chunk.y, cx, cy)), dt)
  IN [chunk EXCEPT !.fade = f,
                   !.visible = 1000 * f > FadeUnit,
                   !.zone = newZone(f, chunk.zone)]

\* update without the purge of the chunks beyond ZONE_CACHED
update_NoPurge(c, cx, cy, predicted, t, elapsed) ==
  LET dt == Min(MaxDt, elapsed)
      c1 == requestChunk(c, cx, cy, t)
      around == SelectSeq(Grid(cx, cy, PRELOAD_RADIUS), LAMBDA xy : xy # << cx, cy >>)
      c2 == IF Cardinality(DOMAIN c1.chunks) > 0
            THEN requestAll(requestAll(c1, around, t), predicted, t)
            ELSE c1
  IN [c2 EXCEPT !.chunks = [key \in DOMAIN c2.chunks |->
                              fadeChunk(c2.chunks[key], cx, cy, dt)], !.dt = dt]

\* update that requests the viewer's chunk after its neighbors
update_NeighborsFirst(c, cx, cy, predicted, t, elapsed) ==
  LET dt == Min(MaxDt, elapsed)
      around == SelectSeq(Grid(cx, cy, PRELOAD_RADIUS), LAMBDA xy : xy # << cx, cy >>)
      c1 == IF Cardinality(DOMAIN c.chunks) > 0
            THEN requestAll(requestAll(c, around, t), predicted, t)
            ELSE c
      c2 == requestChunk(c1, cx, cy, t)
      managed == {key \in DOMAIN c2.chunks :
                    c2.chunks[key].splatMesh # NoMesh /\ ~c2.chunks[key].loading}
      far == {key \in managed :
                dist(c2.chunks[key].x, c2.chunks[key].y, cx, cy) > ZONE_CACHED}
      c3 == purgeChunks(c2, far)
  IN [c3 EXCEPT !.chunks = [key \in DOMAIN c3.chunks |->
                              IF key \in managed
                              THEN fadeChunk(c3.chunks[key], cx, cy, dt)
                              ELSE c3.chunks[key]],
                !.dt = dt]

\* update(controller) at Date.now() = t, elapsed after the update before:
\* the requests, then for every chunk the purge beyond ZONE_CACHED or the
\* fade step
update(c, cx, cy, predicted, t, elapsed) ==
  LET dt == Min(MaxDt, elapsed)
      c1 == requestChunk(c, cx, cy, t)
      around == SelectSeq(Grid(cx, cy, PRELOAD_RADIUS), LAMBDA xy : xy # << cx, cy >>)
      c2 == IF Cardinality(DOMAIN c1.chunks) > 0
            THEN requestAll(requestAll(c1, around, t), predicted, t)
            ELSE c1
      managed == {key \in DOMAIN c2.chunks :
                    c2.chunks[key].splatMesh # NoMesh /\ ~c2.chunks[key].loading}
      far == {key \in managed :
                dist(c2.chunks[key].x, c2.chunks[key].y, cx, cy) > ZONE_CACHED}
      c3 == purgeChunks(c2, far)
  IN [c3 EXCEPT !.chunks = [key \in DOMAIN c3.chunks |->
                              IF key \in managed
                              THEN fadeChunk(c3.chunks[key], cx, cy, dt)
                              ELSE c3.chunks[key]],
                !.dt = dt]

Update(cx, cy, predicted, elapsed) ==
  CCommit(update(CCur, cx, cy, predicted, date, elapsed),
          [CLast("update", << cx, cy >>) EXCEPT !.predicted = predicted])

\* the promise of a loadChunk call is fulfilled
LoadResolve(l) ==
  /\ BagIn(l, loads)
  /\ CCommit([removeWireframe(CCur, l.key) EXCEPT
                !.scene = @ \cup {l.mesh},
                !.chunks = Put(@, l.key, ChunkState(l.key[1], l.key[2], l.mesh)),
                !.pendingLoads = @ \ {l.key},
                !.loads = @ (-) SetToBag({l})],
             CLast("loaded", l.key))

\* the promise of a loadChunk call is rejected, with a BillingError or with
\* another error
LoadReject(l, billing) ==
  /\ BagIn(l, loads)
  /\ LET c1 == [removeWireframe(CCur, l.key) EXCEPT !.pendingLoads = @ \ {l.key},
                                                    !.loads = @ (-) SetToBag({l})]
     IN IF billing
        THEN CCommit([c1 EXCEPT !.billingHalted = TRUE], CLast("billing", l.key))
        ELSE CCommit([c1 EXCEPT !.failedLoads = Put(@, l.key, date),
                                !.failedAt = Put(@, l.key, [at |-> date, purged |-> FALSE])],
                     CLast("failed", l.key))

\* purgeAll with the clear() calls only
purgeAll_ClearOnly(c) ==
  [c EXCEPT !.chunks = NoMap, !.wireframes = {}, !.pendingLoads = {},
            !.failedLoads = NoMap,
            !.failedAt = [k \in DOMAIN @ |-> [@[k] EXCEPT !.purged = TRUE]]]

\* purgeAll(): purgeChunk for every chunk, removeWireframe for every
\* placeholder, then the three clear() calls
purgeAll(c) ==
  [purgeChunks(c, DOMAIN c.chunks) EXCEPT
     !.chunks = NoMap, !.wireframes = {}, !.pendingLoads = {},
     !.failedLoads = NoMap,
     !.failedAt = [k \in DOMAIN @ |-> [@[k] EXCEPT !.purged = TRUE]]]

PurgeAll == CCommit(purgeAll(CCur), CLast("purge", DOMAIN chunks))

\* changePrompt(newPrompt); reached tells whether the POST /api/clear-error
\* it sends when halted gets to the server (its failure is ignored)
ChangePrompt(p, reached) ==
  /\ CWrite([purgeAll(CCur) EXCEPT !.prompt = p, !.billingHalted = FALSE],
            CLast("prompt", DOMAIN chunks))
  /\ posts' = IF billingHalted /\ reached THEN posts + 1 ELSE posts
  /\ UNCHANGED updates

\* reloadActiveChunks(): every chunk loadChunk resolved with has zone active
\* or cached
\* reloadActiveChunks that resets everything
reloadActiveChunks_All(c) == purgeAll(c)

reloadActiveChunks(c) ==
  purgeChunks(c, {key \in DOMAIN c.chunks : c.chunks[key].zone \in {"active", "cached"}})

ReloadActiveChunks == CCommit(reloadActiveChunks(CCur), CLast("reload", DOMAIN chunks))

DateTick ==
  /\ date + DateTickMs <= MaxDate
  /\ date' = date + DateTickMs
  /\ failedAt' = Remove(failedAt, {k \in DOMAIN failedAt :
                                     date' >= failedAt[k].at + RETRY_COOLDOWN_MS})
  /\ clientLast' = CLast("step", << >>)
  /\ UNCHANGED << chunks, pendingLoads, failedLoads, wireframes, prompt, billingHalted,
                  loads, dispatched, updates, scene, posts, poller, fetchers >>
  /\ UNCHANGED serverVars

\* new ChunkManager(scene, prompt)
ClientInit ==
  /\ ServerOff
  /\ chunks = NoMap /\ pendingLoads = {} /\ failedLoads = NoMap /\ wireframes = {}
  /\ prompt \in Prompts /\ billingHalted = FALSE /\ loads = EmptyBag /\ date = Date0
  /\ dispatched = 0 /\ failedAt = NoMap /\ clientLast = CLast("step", << >>)
  /\ updates = 0 /\ scene = {} /\ posts = 0 /\ poller = NoPoll
  /\ fetchers = NoFetchers

ClientNext ==
  \/ \E v \in ViewerCoords, predicted \in PredictedLists, elapsed \in ClientElapsed :
       Update(v[1], v[2], predicted, elapsed)
  \/ \E v \in ViewerCoords, radius \in {0, PRELOAD_RADIUS} : PreloadGrid(v[1], v[2], radius)
  \/ \E l \in BagToSet(loads) : LoadResolve(l)
  \/ \E l \in BagToSet(loads), billing \in BOOLEAN : LoadReject(l, billing)
  \/ PurgeAll
  \/ \E p \in Prompts : ChangePrompt(p, FALSE)
  \/ ReloadActiveChunks
  \/ DateTick

\* one ChunkManager
ClientSpec == ClientInit /\ [][ClientNext]_vars

(***************************************************************************)
(* The frames of one ChunkManager: updates at varying intervals for a      *)
(* viewer that moves between three chunks, and the loads they dispatch.    *)
(***************************************************************************)
\* update is called MaxUpdates times
MaxUpdates == 5
\* the viewer's chunk: at distance 0, 2 and 4 of the chunk at 0,0
ZoneViewerCoords == { << 0, 0 >>, << 2, 0 >>, << 4, 0 >> }
\* the time between two updates: none, 66.6 ms, a quarter of a second
ZoneElapsed == { 0, (666 * TimeUnit) \div 10000, TimeUnit \div 4 }

\* a call of update, counted
Frame(cx, cy, predicted, elapsed) ==
  /\ updates < MaxUpdates
  /\ updates' = updates + 1
  /\ UNCHANGED posts
  /\ CWrite(update(CCur, cx, cy, predicted, date, elapsed),
            [CLast("update", << cx, cy >>) EXCEPT !.predicted = predicted])

ZoneNext ==
  \/ \E v \in ZoneViewerCoords, predicted \in PredictedLists, elapsed \in ZoneElapsed :
       Frame(v[1], v[2], predicted, elapsed)
  \/ \E l \in BagToSet(loads) : LoadResolve(l)

ZoneSpec == ClientInit /\ [][ZoneNext]_vars

(***************************************************************************)
(* One loadChunk call up to the asset reference: the initial query and     *)
(* pollUntilReady.  The responses of the server are inputs.                *)
(***************************************************************************)
maxAttempts == 200

\* fetch rejected
NetFail == [net |-> FALSE, ok |-> FALSE, status |-> "none", spz |-> FALSE]
\* a response: res.ok, data.status ("none" for a body that is not JSON)
\* and whether data.spzUrl is set
Responses ==
  {NetFail} \cup
  [net : {TRUE}, ok : BOOLEAN,
   status : {"none", "generating", "completed", "error", "billing_error"},
   spz : BOOLEAN]

Ended(p, outcome, r) == [p EXCEPT !.pc = "done", !.outcome = outcome, !.resp = r]

\* loadChunk from its fetch to the call of pollUntilReady
initialQuery(p, r) ==
  IF ~r.net THEN Ended(p, "other", r)
  ELSE IF r.status = "none" THEN Ended(p, "other", r)
  ELSE IF r.status = "billing_error" THEN Ended(p, "billing", r)
  ELSE IF ~r.ok THEN Ended(p, "other", r)
  ELSE IF r.status = "completed" /\ r.spz THEN Ended(p, "asset", r)
  ELSE [p EXCEPT !.pc = "polling", !.resp = r]

\* the end of the loop body: i++ and the test of i < maxAttempts
nextAttempt(p, r) ==
  IF p.polls + 1 < maxAttempts
  THEN [p EXCEPT !.polls = @ + 1, !.resp = r]
  ELSE Ended([p EXCEPT !.polls = @ + 1], "timeout", r)

\* an iteration that takes status error for one more status to wait on
pollAttempt_ErrorWaits(p, r) ==
  IF ~r.net THEN nextAttempt(p, r)
  ELSE IF r.status = "billing_error" THEN Ended([p EXCEPT !.polls = @ + 1], "billing", r)
  ELSE IF ~r.ok THEN nextAttempt(p, r)
  ELSE IF r.status = "completed" /\ r.spz
       THEN Ended([p EXCEPT !.polls = @ + 1], "asset", r)
  ELSE nextAttempt(p, r)

\* one iteration of the loop of pollUntilReady: the sleep, the fetch and
\* what follows from its response
pollAttempt(p, r) ==
  IF ~r.net THEN nextAttempt(p, r)
  ELSE IF r.status = "billing_error" THEN Ended([p EXCEPT !.polls = @ + 1], "billing", r)
  ELSE IF ~r.ok THEN nextAttempt(p, r)
  ELSE IF r.status = "completed" /\ r.spz
       THEN Ended([p EXCEPT !.polls = @ + 1], "asset", r)
  ELSE IF r.status = "error" THEN Ended([p EXCEPT !.polls = @ + 1], "generation", r)
  ELSE nextAttempt(p, r)

LoaderFrame ==
  UNCHANGED << serverVars, posts, chunks, pendingLoads, failedLoads, wireframes, prompt,
               billingHalted, loads, date, dispatched, failedAt, clientLast, updates,
               scene, fetchers >>

InitialQuery(r) ==
  /\ poller.pc = "initial"
  /\ poller' = initialQuery(poller, r)
  /\ LoaderFrame

PollAttempt(r) ==
  /\ poller.pc = "polling"
  /\ poller' = pollAttempt(poller, r)
  /\ LoaderFrame

LoaderInit ==
  /\ ServerOff
  /\ chunks = NoMap /\ pendingLoads = {} /\ failedLoads = NoMap /\ wireframes = {}
  /\ prompt = "P" /\ billingHalted = FALSE /\ loads = EmptyBag /\ date = Date0
  /\ dispatched = 0 /\ failedAt = NoMap /\ clientLast = CLast("step", << >>)
  /\ updates = 0 /\ scene = {} /\ posts = 0
  /\ poller = [NoPoll EXCEPT !.pc = "initial"]
  /\ fetchers = NoFetchers

LoaderNext ==
  \/ \E r \in Responses : InitialQuery(r)
  \/ \E r \in Responses : PollAttempt(r)

\* every fetch settles and every sleep ends
LoaderSpec == LoaderInit /\ [][LoaderNext]_vars /\ WF_vars(LoaderNext)

(***************************************************************************)
(* PredictiveFetcher.  A speed is in hundredths, a component of the        *)
(* forward direction in thousandths; the arithmetic is exact.              *)
(***************************************************************************)
CHUNK_SIZE == 20
WORST_CASE_LATENCY_S == 45
MIN_PREDICT_DISTANCE == 1
MAX_PREDICT_DISTANCE == 2
\* frameCounter % 30
RecomputeEvery == 30
SpeedUnit == 100
FwdUnit == 1000
\* speed < 0.1
SlowSpeed == SpeedUnit \div 10

\* getPredictedChunks calls of one fetcher
MaxFrames == 61

\* controller.getChunkCoords()
FetchCoords == { << 0, 0 >>, << 2, -1 >> }
\* controller.getVelocity().length(): 0.05, 0.1, 0.4, 0.5, 4.8
Speeds == { 5, 10, 40, 50, 480 }
\* controller.getForwardXZ(): a unit vector
Forwards ==
  { [x |-> 0, z |-> -1000], [x |-> 1000, z |-> 0], [x |-> 707, z |-> 707],
    [x |-> -600, z |-> 800], [x |-> 259, z |-> -966] }
Viewers == [chunk : FetchCoords, speed : Speeds, forward : Forwards]
NoViewer == [chunk |-> << 0, 0 >>, speed |-> 0, forward |-> [x |-> 0, z |-> -1000]]

\* new PredictiveFetcher()
NewFetcher ==
  [lastPrediction |-> << >>, frameCounter |-> 0,
   viewer |-> NoViewer, result |-> << >>]

\* Math.floor(n / d + 0.5)
RoundDiv(n, d) == (2 * n + d) \div (2 * d)

\* Math.ceil((speed * WORST_CASE_LATENCY_S) / CHUNK_SIZE)
predictDist(speed) ==
  (speed * WORST_CASE_LATENCY_S + CHUNK_SIZE * SpeedUnit - 1) \div (CHUNK_SIZE * SpeedUnit)

\* the clamp with an upper limit one step too far
clampedDist_OneMore(speed) ==
  Max(MIN_PREDICT_DISTANCE, Min(MAX_PREDICT_DISTANCE + 1, predictDist(speed)))

clampedDist(speed) ==
  Max(MIN_PREDICT_DISTANCE, Min(MAX_PREDICT_DISTANCE, predictDist(speed)))

\* the coordinate of one spread of one step
spreadCoord(cx, cy, forward, step, spread) ==
  LET worldX == cx * CHUNK_SIZE * FwdUnit + forward.x * step * CHUNK_SIZE
      worldZ == cy * CHUNK_SIZE * FwdUnit + forward.z * step * CHUNK_SIZE
      gx == RoundDiv(worldX, CHUNK_SIZE * FwdUnit)
      gy == RoundDiv(worldZ, CHUNK_SIZE * FwdUnit)
      perpX == -forward.z
      perpZ == forward.x
  IN << RoundDiv(gx * FwdUnit + perpX * spread, FwdUnit),
        RoundDiv(gy * FwdUnit + perpZ * spread, FwdUnit) >>

InSeq(q, e) == \E i \in 1..Len(q) : q[i] = e

\* the loops over step and spread, from (step, spread) on; seen holds the
\* keys of results
RECURSIVE walk(_, _, _, _, _, _, _)
walk(results, cx, cy, forward, reach, step, spread) ==
  IF step > reach THEN results
  ELSE IF spread > 1 THEN walk(results, cx, cy, forward, reach, step + 1, -1)
  ELSE LET f == spreadCoord(cx, cy, forward, step, spread)
       IN walk(IF InSeq(results, f) THEN results ELSE Append(results, f),
               cx, cy, forward, reach, step, spread + 1)

\* a recomputation that adds to the last prediction
recompute_Accumulate(f, v) ==
  walk(f.lastPrediction, v.chunk[1], v.chunk[2], v.forward, clampedDist(v.speed), 1, -1)

\* getPredictedChunks at a call that recomputes
recompute(f, v) ==
  LET cx == v.chunk[1]
      cy == v.chunk[2]
  IN IF v.speed < SlowSpeed
     THEN << << cx + 1, cy >>, << cx - 1, cy >>, << cx, cy + 1 >>, << cx, cy - 1 >> >>
     ELSE walk(<< >>, cx, cy, v.forward, clampedDist(v.speed), 1, -1)

\* a fetcher that recomputes at every call
getPredictedChunks_EveryCall(f, v) ==
  LET r == recompute(f, v)
  IN [f EXCEPT !.frameCounter = @ + 1, !.lastPrediction = r, !.viewer = v,
               !.result = r]

\* getPredictedChunks(controller)
getPredictedChunks(f, v) ==
  LET n == f.frameCounter + 1
      r == recompute(f, v)
  IN IF n % RecomputeEvery # 0
     THEN [f EXCEPT !.frameCounter = n, !.viewer = v, !.result = f.lastPrediction]
     ELSE [f EXCEPT !.frameCounter = n, !.lastPrediction = r, !.viewer = v, !.result = r]

FetcherFrame ==
  UNCHANGED << serverVars, posts, chunks, pendingLoads, failedLoads, wireframes, prompt,
               billingHalted, loads, date, dispatched, failedAt, clientLast, updates,
               scene, poller >>

\* a call of getPredictedChunks of fetcher i
GetPredictedChunks(i, v) ==
  /\ fetchers[i].frameCounter < MaxFrames
  /\ fetchers' = [fetchers EXCEPT ![i] = getPredictedChunks(@, v)]
  /\ FetcherFrame

FetcherOff ==
  /\ ServerOff
  /\ chunks = NoMap /\ pendingLoads = {} /\ failedLoads = NoMap /\ wireframes = {}
  /\ prompt = "P" /\ billingHalted = FALSE /\ loads = EmptyBag /\ date = Date0
  /\ dispatched = 0 /\ failedAt = NoMap /\ clientLast = CLast("step", << >>)
  /\ updates = 0 /\ scene = {} /\ posts = 0 /\ poller = NoPoll

\* one fetcher from its construction
FetcherInit == FetcherOff /\ fetchers = << NewFetcher >>

FetcherNext == \E v \in Viewers : GetPredictedChunks(1, v)

FetcherSpec == FetcherInit /\ [][FetcherNext]_vars

\* what a fetcher holds one call before a recomputation: nothing before the
\* first one, later the result of the last one
Predictions == { << >> } \cup { recompute(NewFetcher, v) : v \in Viewers }
DueFetchers ==
  { [NewFetcher EXCEPT !.frameCounter = RecomputeEvery - 1] } \cup
  { [NewFetcher EXCEPT !.frameCounter = 2 * RecomputeEvery - 1, !.lastPrediction = q] :
      q \in Predictions \ { << >> } }

\* two fetchers, each one call before a recomputation
PredictInit == FetcherOff /\ fetchers \in [1..2 -> DueFetchers]

PredictNext ==
  \E i \in 1..2, v \in Viewers :
    /\ (fetchers[i].frameCounter + 1) % RecomputeEvery = 0
    /\ GetPredictedChunks(i, v)

PredictSpec == PredictInit /\ [][PredictNext]_vars

(***************************************************************************)
(* A loadChunk call of a ChunkManager against the server: its queries are  *)
(* GET /api/chunk requests for one key, answered by the handler, while the *)
(* job of the key runs.                                                    *)
(***************************************************************************)
\* the polls followed (of the maxAttempts)
MaxPolls == 3

PollCoord == << 0, 0 >>
PollKey == Key(0, 0, "P")
PollLoad == [key |-> PollCoord, prompt |-> "P", mesh |-> 1]

\* what the client reads of an answer: res.ok, data.status, data.spzUrl
ResponseOf(g) ==
  [net |-> TRUE, ok |-> g.l.code = 200, status |-> g.l.status,
   spz |-> g.l.status = "completed" /\ g.s.db[PollKey].spz]

PollFrame ==
  UNCHANGED << posts, chunks, pendingLoads, failedLoads, wireframes, prompt,
               billingHalted, loads, date, dispatched, failedAt, clientLast, updates,
               scene, fetchers >>

\* the fetch of loadChunk and its answer
LoadChunkGet ==
  /\ poller.pc = "initial"
  /\ LET g == getChunk(<< "0" >>, << "0" >>, "P")
     IN /\ Store(g.s, g.l)
        /\ poller' = initialQuery(poller, ResponseOf(g))
  /\ PollFrame

\* one iteration of pollUntilReady and its answer
PollGet ==
  /\ poller.pc = "polling" /\ poller.polls < MaxPolls
  /\ LET g == getChunk(<< "0" >>, << "0" >>, "P")
     IN /\ Store(g.s, g.l)
        /\ poller' = pollAttempt(poller, ResponseOf(g))
  /\ PollFrame

\* the then / catch handler of requestChunk for the call that has ended
LoadSettle ==
  /\ poller.pc = "done"
  /\ IF poller.outcome = "asset"
     THEN LoadResolve(PollLoad)
     ELSE LoadReject(PollLoad, poller.outcome = "billing")

\* the server as main() leaves it, and a ChunkManager that has called
\* requestChunk for PollCoord
PollInit ==
  /\ keys = {PollKey, Key(1, 0, "P")}
  /\ db = [k \in keys |-> NoRow] /\ disk = db
  /\ generationQueue = << >> /\ activeGenerations = 0 /\ rateLimitBackoffUntil = 0
  /\ apiError = NoError /\ jobs = {} /\ timers = EmptyBag /\ now = 0
  /\ keySet \in BOOLEAN /\ inserts = 0 /\ last = Did("main")
  /\ chunks = NoMap /\ pendingLoads = {PollCoord} /\ failedLoads = NoMap
  /\ wireframes = {PollCoord} /\ prompt = "P" /\ billingHalted = FALSE
  /\ loads = SetToBag({PollLoad}) /\ date = Date0 /\ dispatched = 1
  /\ failedAt = NoMap /\ clientLast = [CLast("update", PollCoord) EXCEPT !.sent = << PollCoord >>]
  /\ updates = 0 /\ scene = {} /\ posts = 0
  /\ poller = [NoPoll EXCEPT !.pc = "initial"]
  /\ fetchers = NoFetchers

PollNext ==
  \/ LoadChunkGet
  \/ PollGet
  \/ LoadSettle
  \* another client asks for the neighbor
  \/ GetChunk(<< "1" >>, << "0" >>, "P")
  \/ \E j \in jobs : SeedOk(j)
  \/ \E j \in jobs : SeedFail(j)
  \/ \E j \in jobs, saved \in BOOLEAN : StartOk(j, saved)
  \/ \E j \in jobs, hasSpz \in BOOLEAN, hasPano \in BOOLEAN : PollDone(j, hasSpz, hasPano)
  \/ \E j \in jobs, saved \in BOOLEAN : DownloadOk(j, saved)
  \/ \E j \in jobs, err \in Errors : JobFail(j, err)
  \/ Tick
  \/ \E due \in BagToSet(timers) : TimerFire(due)

PollSpec == PollInit /\ [][PollNext]_vars

(***************************************************************************)
(* The requests of a ChunkManager that has some of the chunks around the   *)
(* viewer resident, loaded and faded in by earlier frames.                 *)
(***************************************************************************)
\* the keys within PRELOAD_RADIUS of the viewer at 0,0
GridKeys ==
  {<< x, y >> : x \in (0 - PRELOAD_RADIUS)..PRELOAD_RADIUS,
                y \in (0 - PRELOAD_RADIUS)..PRELOAD_RADIUS}
\* the mesh of a chunk that was loaded before: numbered below NoMesh
OldMesh(k) ==
  0 - (1 + (k[1] + PRELOAD_RADIUS) * (2 * PRELOAD_RADIUS + 1) + (k[2] + PRELOAD_RADIUS))
\* a chunk after the update that faded it in
OldChunk(k) == [ChunkState(k[1], k[2], OldMesh(k)) EXCEPT !.fade = FadeUnit]

GridInit ==
  /\ ServerOff
  /\ \E resident \in SUBSET GridKeys :
       /\ chunks = [k \in resident |-> OldChunk(k)]
       /\ scene = {OldMesh(k) : k \in resident}
  /\ pendingLoads = {} /\ failedLoads = NoMap /\ wireframes = {}
  /\ prompt = "P" /\ billingHalted = FALSE /\ loads = EmptyBag /\ date = Date0
  /\ dispatched = 0 /\ failedAt = NoMap /\ clientLast = CLast("step", << >>)
  /\ updates = 0 /\ posts = 0 /\ poller = NoPoll
  /\ fetchers = NoFetchers

GridNext ==
  \/ \E v \in ViewerCoords, predicted \in PredictedLists, elapsed \in ClientElapsed :
       Update(v[1], v[2], predicted, elapsed)
  \/ \E l \in BagToSet(loads) : LoadResolve(l)
  \/ \E l \in BagToSet(loads) : LoadReject(l, FALSE)

GridSpec == GridInit /\ [][GridNext]_vars

(***************************************************************************)
(* A ChunkManager and the server its POST /api/clear-error reaches.  The   *)
(* server is idle, with rows and the halt flag as earlier jobs (and a      *)
(* restart) have left them; the outcomes of the loads are inputs.          *)
(***************************************************************************)
PromptRows ==
  {Row("completed", TRUE, TRUE, TRUE), Row("billing_error", FALSE, FALSE, FALSE)}

PromptInit ==
  /\ keys \in KeySets
  /\ db \in [keys -> PromptRows]
  /\ disk = db
  /\ generationQueue = << >>
  /\ activeGenerations = 0
  /\ rateLimitBackoffUntil = 0
  /\ apiError \in {NoError, Halt402}
  /\ jobs = {}
  /\ timers = EmptyBag
  /\ now = 0
  /\ keySet = TRUE
  /\ inserts = 0
  /\ last = Did("main")
  /\ chunks = NoMap /\ pendingLoads = {} /\ failedLoads = NoMap /\ wireframes = {}
  /\ prompt \in Prompts /\ billingHalted = FALSE /\ loads = EmptyBag /\ date = Date0
  /\ dispatched = 0 /\ failedAt = NoMap /\ clientLast = CLast("step", << >>)
  /\ updates = 0 /\ scene = {} /\ posts = 0 /\ poller = NoPoll
  /\ fetchers = NoFetchers

PromptNext ==
  \/ \E v \in ViewerCoords, elapsed \in ClientElapsed : Update(v[1], v[2], << >>, elapsed)
  \/ \E l \in BagToSet(loads) : LoadResolve(l)
  \/ \E l \in BagToSet(loads) : LoadReject(l, TRUE)
  \/ \E p \in Prompts, reached \in BOOLEAN : ChangePrompt(p, reached)
  \/ ClearErrorPost

PromptSpec == PromptInit /\ [][PromptNext]_vars

(***************************************************************************)
(* Properties.                                                             *)
(***************************************************************************)
QueueKeys(q) == [i \in 1..Len(q) |-> q[i].key]
Queued(q, k) == {i \in 1..Len(q) : q[i].key = k}
\* the step is GET /api/chunk for key k, past the credential and halt checks
ChunkStep(k) ==
  /\ last'.op = "chunk" /\ last'.key = k
  /\ keySet /\ apiError = NoError

\* C1 (single flight): a GET /api/chunk for a key without a row is answered
\* "started", creates the generating row and leaves exactly one job of that
\* key enqueued (queued, or started by this very request); a GET for a key
\* whose row is generating is answered "generating" and changes nothing; and
\* "started" is the answer only where there was no row or an error row.
C1_SingleFlight ==
  [][\A k \in keys : ChunkStep(k) =>
       /\ db[k] = NoRow =>
            /\ last'.code = 200 /\ last'.status = "started"
            /\ db' = [db EXCEPT ![k] = Row("generating", FALSE, FALSE, FALSE)]
            /\ Cardinality(Queued(generationQueue', k))
                 + Cardinality({j \in jobs' \ jobs : j.key = k}) = 1
       /\ db[k].status = "generating" =>
            /\ last'.code = 200 /\ last'.status = "generating"
            /\ UNCHANGED << db, generationQueue, jobs, activeGenerations, timers >>
       /\ last'.status = "started" => db[k].status \in {"none", "error"}
    ]_vars

\* a second request for a key is answered "generating" while the only row
\* ever inserted is generating and its job is in flight
C1_Witness ==
  /\ last.op = "chunk" /\ last.status = "generating"
  /\ db[last.key].status = "generating"
  /\ inserts = 1
  /\ \E j \in jobs : j.key = last.key

\* C2 (bounded concurrency): the active job count stays between 0 and the
\* concurrency cap.
C2_BoundedConcurrency ==
  activeGenerations \in 0..MAX_CONCURRENT_GENERATIONS

\* the cap is reached while further jobs wait in the queue
C2_Witness ==
  /\ activeGenerations = MAX_CONCURRENT_GENERATIONS
  /\ Len(generationQueue) >= 1
  /\ last.op = "chunk" /\ last.status = "started" /\ last.started = 0

\* C3 (backoff): an operation that starts a job runs at a time that is not
\* before the backoff deadline.
C3_Backoff ==
  last.started > 0 => now >= rateLimitBackoffUntil

\* a job enqueued before the deadline waits: it is queued, none is active and
\* a re-check is scheduled
C3_Witness ==
  /\ now < rateLimitBackoffUntil
  /\ last.op = "chunk" /\ last.status = "started" /\ last.started = 0
  /\ Len(generationQueue) >= 1 /\ activeGenerations = 0
  /\ BagIn(rateLimitBackoffUntil, timers)

\* C4 (billing halt): the step that sets the halt flag empties the queue and
\* starts no job; while the flag is set the queue is empty, no job is started
\* and every valid GET /api/chunk with the credential set is answered 402
\* billing_error without any effect; only POST /api/clear-error unsets the flag.
C4_BillingHalt ==
  [][/\ apiError' # NoError => generationQueue' = << >> /\ last'.started = 0
     /\ (apiError # NoError /\ keySet /\ last'.op = "chunk" /\ last'.code # 400) =>
          /\ last'.code = 402 /\ last'.status = "billing_error"
          /\ UNCHANGED << db, generationQueue, jobs, activeGenerations, timers,
                          rateLimitBackoffUntil, apiError >>
     /\ (apiError # NoError /\ apiError' = NoError) => last'.op = "clear"
    ]_vars

\* while halted, a request for a completed chunk is answered billing_error
C4_Witness ==
  /\ apiError # NoError
  /\ last.op = "chunk" /\ last.status = "billing_error"
  /\ db[last.key].status = "completed"

\* C5 (status monotonicity): a row is created as generating; a generating
\* row becomes completed, error or billing_error; a completed row keeps its
\* status; an error row changes only by being deleted (a GET /api/chunk may
\* re-create it as generating in the same step); a billing_error row changes
\* only by being deleted by clear-error.  A reset may delete any row.
C5_StatusMonotone ==
  [][\A k \in keys :
       LET a == db[k].status
           b == db'[k].status
           deleted == b = "none" /\ last'.op = "reset"
       IN \/ a = b
          \/ deleted
          \/ a = "none" /\ b = "generating" /\ last'.op = "chunk" /\ last'.key = k
          \/ a = "generating" /\ b \in {"completed", "error", "billing_error"}
          \/ a = "error" /\ b = "generating" /\ last'.op = "chunk" /\ last'.key = k
          \/ a = "billing_error" /\ b = "none" /\ last'.op = "clear"
    ]_vars

\* C6 (row ownership): no operation updates a row on behalf of a job other
\* than the one enqueued by the insert of that row.
C6_RowOwnership ==
  last.wrote # "stale"

\* a payment (402) failure and a rate-limit (429) failure, told by the HTTP
\* status or by the message text
Payment(err) == err.status = 402 \/ err.m402
RateLimit(err) == ~Payment(err) /\ (err.status = 429 \/ err.m429)

Drained ==
  /\ apiError # NoError => generationQueue = << >>
  /\ (apiError = NoError /\ activeGenerations < MAX_CONCURRENT_GENERATIONS
        /\ Len(generationQueue) > 0) =>
       /\ now < rateLimitBackoffUntil
       /\ BagIn(rateLimitBackoffUntil, timers)

\* C8 (job boundary): the active count is the number of jobs in flight, and a
\* step that ends a job, by success or by failure, decrements the count once
\* (each job it starts adds one) and leaves the queue drained.
C8_JobBoundary ==
  [][/\ activeGenerations' = Cardinality(jobs')
     /\ last'.op \in {"fail", "done"} =>
          /\ activeGenerations' = activeGenerations - 1 + last'.started
          /\ Drained'
    ]_vars

\* a failing job has ended and the drain of its finally block has started
\* the next one
C8_Witness ==
  /\ last.op = "fail" /\ last.started = 1
  /\ activeGenerations = 1 /\ Cardinality(jobs) = 1

\* C9 (queue deduplication): no key is queued twice, and a GET /api/chunk
\* that enqueues a key already queued leaves the queue, the active count, the
\* deadline, the halt flag, the jobs and the timers as they were.
C9_QueueDedup ==
  [][/\ \A i, j \in 1..Len(generationQueue') :
          generationQueue'[i].key = generationQueue'[j].key => i = j
     /\ \A k \in keys :
          (ChunkStep(k) /\ last'.status = "started" /\ Queued(generationQueue, k) # {}) =>
            /\ QueueKeys(generationQueue') = QueueKeys(generationQueue)
            /\ last'.started = 0
            /\ UNCHANGED << activeGenerations, rateLimitBackoffUntil, apiError, timers >>
            /\ {[j EXCEPT !.stale = FALSE] : j \in jobs'} =
                 {[j EXCEPT !.stale = FALSE] : j \in jobs}
    ]_vars

\* a request was answered "started" and the queue holds the entry that an
\* earlier insert of the key had enqueued
C9_Witness ==
  /\ last.op = "chunk" /\ last.status = "started"
  /\ \E i \in 1..Len(generationQueue) :
       generationQueue[i].key = last.key /\ generationQueue[i].stale
  /\ db[last.key].status = "generating"

\* C10 (clear-error): after POST /api/clear-error the halt flag is clear and
\* no row has status billing_error.
C10_ClearError ==
  last.op = "clear" =>
    /\ apiError = NoError
    /\ \A k \in keys : db[k].status # "billing_error"

\* the table main() leaves of the table d: the rows that are completed
CompletedOnly(d) == [k \in keys |-> IF d[k].status = "completed" THEN d[k] ELSE NoRow]

\* C11 (startup cleanup): when a process has started, only the rows that were
\* completed remain, each unchanged, the queue is empty, the active count is
\* 0 and no job is in flight or started.
C11_StartupCleanup ==
  [][last'.op = "main" =>
       /\ db' = CompletedOnly(db)
       /\ generationQueue' = << >> /\ activeGenerations' = 0
       /\ jobs' = {} /\ last'.started = 0
    ]_vars

\* the jobs of key k in flight after the step that were not before it
StartedJobs(k) ==
  {j \in jobs' : /\ j.key = k
                 /\ \A i \in jobs : [i EXCEPT !.stale = FALSE] # [j EXCEPT !.stale = FALSE]}

\* C12 (error retry): a GET /api/chunk past the credential and halt checks
\* for a key whose row is error replaces the row by a fresh generating row,
\* is answered "started" and leaves exactly one job of the key enqueued
\* (queued, or started by this request); and a row that is error changes
\* only in a GET /api/chunk for its key or by the delete of a reset.
C12_ErrorRetry ==
  [][\A k \in keys :
       /\ (ChunkStep(k) /\ db[k].status = "error") =>
            /\ last'.code = 200 /\ last'.status = "started"
            /\ db' = [db EXCEPT ![k] = Row("generating", FALSE, FALSE, FALSE)]
            /\ Cardinality(Queued(generationQueue', k))
                 + Cardinality(StartedJobs(k)) = 1
       /\ (db[k].status = "error" /\ ~(last'.op = "chunk" /\ last'.key = k)) =>
            \/ db'[k] = db[k]
            \/ db'[k] = NoRow /\ last'.op = "reset"
    ]_vars

\* C13 (request rejection): a GET /api/chunk whose x or y is not an integer
\* is answered 400; else, without the credential, 503; else, while halted,
\* 402 billing_error; and in these cases the table, the queue, the active
\* count, the deadline and the halt flag are unchanged.
C13_RequestRejection ==
  [][last'.op = "chunk" =>
       LET same == UNCHANGED << db, generationQueue, activeGenerations,
                                rateLimitBackoffUntil, apiError >>
       IN IF ~last'.integer THEN last'.code = 400 /\ same
          ELSE IF ~keySet THEN last'.code = 503 /\ same
          ELSE IF apiError # NoError
          THEN last'.code = 402 /\ last'.status = "billing_error" /\ same
          ELSE TRUE
    ]_vars

\* C15 (seeding is best effort): while a job waits for a neighbor's panorama
\* no step ends it as failed or done; after the step the job is still in
\* flight, at the panorama of a later neighbor or at the start call; and the
\* step does not set its row to error or billing_error.
C15_SeedingBestEffort ==
  [][\A j \in jobs : j.pc = "seeding" =>
       /\ ~(last'.op \in {"fail", "done"} /\ last'.key = j.key)
       /\ \E j2 \in jobs' :
            /\ j2.id = j.id /\ j2.key = j.key
            /\ \/ j2.pc = "starting"
               \/ j2.pc = "seeding" /\ j2.nb >= j.nb
       /\ db'[j.key].status \in {"error", "billing_error"} => db'[j.key] = db[j.key]
    ]_vars

\* a job is at the start call without a seed although a neighbor is
\* completed with a panorama: the extraction failed
C15_Witness ==
  \E j \in jobs :
    /\ j.pc = "starting" /\ j.edge = "none"
    /\ NextNeighbor(db, j.key, 1) # 0
    /\ db[j.key].status = "generating"

C17_Reset ==
  [][last'.op = "reset" =>
       LET p == last'.key.prompt IN
       /\ \A k \in keys :
            db'[k] = IF p = NoPrompt \/ k.prompt = p THEN NoRow ELSE db[k]
       /\ QueueKeys(generationQueue') = QueueKeys(generationQueue)
       /\ UNCHANGED << activeGenerations, rateLimitBackoffUntil, apiError >>
    ]_vars

\* C17 as amended: an empty prompt counts as no prompt.
C17_ResetAmended ==
  [][last'.op = "reset" =>
       LET p == last'.key.prompt IN
       /\ \A k \in keys :
            db'[k] = IF p \in {NoPrompt, ""} \/ k.prompt = p THEN NoRow ELSE db[k]
       /\ QueueKeys(generationQueue') = QueueKeys(generationQueue)
       /\ UNCHANGED << activeGenerations, rateLimitBackoffUntil, apiError >>
    ]_vars

\* a reset of one prompt left the row of the other prompt and the queued job
\* of that row in place
C17_Witness ==
  /\ last.op = "reset" /\ last.key.prompt = "P"
  /\ \E k \in keys : k.prompt = "Q" /\ db[k].status = "generating"
                       /\ Queued(generationQueue, k) # {}
  /\ activeGenerations = 1

\* the row of key k in table d is completed and has a panorama
Qualifies(d, k) == k \in DOMAIN d /\ d[k].status = "completed" /\ d[k].pano
\* the neighbors of k from offset lo to offset hi with such a row
Qualifying(d, k, lo, hi) == {i \in lo..hi : Qualifies(d, NeighborKey(k, i))}
LabelOf(i) == NEIGHBOR_OFFSETS[i].label

NewJob(j2) ==
  /\ last'.started > 0
  /\ last'.op \in {"fail", "done"} \/ \A j \in jobs : j.id # j2.id

\* the job j2 has probed the neighbors after offset prev in table d: it waits
\* for the panorama of the first that qualifies, or is at the start call
\* without a seed when none does
Probed(d, j2, prev) ==
  IF j2.pc = "seeding"
  THEN /\ j2.nb > prev /\ Qualifies(d, NeighborKey(j2.key, j2.nb))
       /\ Qualifying(d, j2.key, prev + 1, j2.nb - 1) = {}
  ELSE /\ j2.pc = "starting" /\ j2.edge = "none"
       /\ Qualifying(d, j2.key, prev + 1, 4) = {}

RequestStep == clientLast'.op \in {"update", "preload"}
\* the keys the step has called loadChunk for
Sent == {clientLast'.sent[i] : i \in 1..Len(clientLast'.sent)}

C19_ResidencyGate ==
  [][/\ DOMAIN chunks' \cap pendingLoads' = {}
     /\ RequestStep =>
          /\ Sent \cap (DOMAIN chunks \cup pendingLoads) = {}
          /\ Cardinality(Sent) = Len(clientLast'.sent)
          /\ pendingLoads' = pendingLoads \cup Sent
          /\ wireframes' = wireframes \cup Sent
          /\ failedLoads' = [k \in DOMAIN failedLoads \ Sent |-> failedLoads[k]]
          /\ billingHalted' = billingHalted
    ]_vars

\* an update for a viewer whose key is resident has called loadChunk for
\* another key
C19_Witness ==
  /\ clientLast.op = "update" /\ clientLast.key \in DOMAIN chunks
  /\ clientLast.sent # << >> /\ clientLast.sent[1] # clientLast.key
  /\ pendingLoads = {clientLast.sent[1]}

\* the viewer's key can be requested: the manager is not halted, the key is
\* neither resident nor pending and a slot is free
Eligible(key) ==
  /\ ~billingHalted
  /\ key \notin DOMAIN chunks \cup pendingLoads
  /\ Cardinality(pendingLoads) < MAX_PENDING_LOADS

\* C20 (retry cooldown): loadChunk is not called for a key less than 10 s
\* after the last load of the key failed with a failure other than billing;
\* and an update requests the viewer's key when it can be requested and
\* failed 10 s ago or earlier.
C20_RetryCooldown ==
  [][RequestStep =>
       /\ \A k \in Sent :
            k \in DOMAIN failedAt => date >= failedAt[k].at + RETRY_COOLDOWN_MS
       /\ (/\ clientLast'.op = "update"
           /\ Eligible(clientLast'.key)
           /\ clientLast'.key \in DOMAIN failedLoads
           /\ date >= failedLoads[clientLast'.key] + RETRY_COOLDOWN_MS) =>
            clientLast'.key \in Sent
    ]_vars

\* C20 as amended: purgeAll, also as part of changePrompt, ends the
\* cooldown.
C20_RetryCooldownAmended ==
  [][RequestStep =>
       /\ \A k \in Sent :
            k \in DOMAIN failedAt =>
              \/ date >= failedAt[k].at + RETRY_COOLDOWN_MS
              \/ failedAt[k].purged
       /\ (/\ clientLast'.op = "update"
           /\ Eligible(clientLast'.key)
           /\ clientLast'.key \in DOMAIN failedLoads
           /\ date >= failedLoads[clientLast'.key] + RETRY_COOLDOWN_MS) =>
            clientLast'.key \in Sent
    ]_vars

\* an update has requested the viewer's key again, which had a failure
\* recorded RETRY_COOLDOWN_MS before
C20_Witness ==
  /\ clientLast.op = "update" /\ clientLast.sent = << clientLast.key >>
  /\ clientLast.retried = {clientLast.key}
  /\ date = Date0 + RETRY_COOLDOWN_MS /\ dispatched = 2

\* C21 (client billing halt): a load that fails with a billing failure sets
\* billingHalted; while it is set no update or preloadGrid calls loadChunk;
\* only changePrompt clears it; and a failure that is not a billing failure
\* leaves it as it is.
C21_BillingHalt ==
  [][/\ clientLast'.op = "billing" => billingHalted'
     /\ (billingHalted /\ RequestStep) => (clientLast'.sent = << >> /\ loads' = loads)
     /\ (billingHalted /\ ~billingHalted') => clientLast'.op = "prompt"
     /\ clientLast'.op = "failed" => billingHalted' = billingHalted
    ]_vars

\* after a billing failure an update for a viewer whose key is neither
\* resident nor pending has called loadChunk for no key
C21_Witness ==
  /\ billingHalted /\ clientLast.op = "update" /\ clientLast.sent = << >>
  /\ pendingLoads = {} /\ clientLast.key \notin DOMAIN chunks
  /\ clientLast.key \notin DOMAIN failedLoads

\* the Chebyshev distance of key k to the viewer's chunk v
DistTo(k, v) ==
  LET ax == k[1] - v[1]
      ay == k[2] - v[2]
      mx == IF ax < 0 THEN -ax ELSE ax
      my == IF ay < 0 THEN -ay ELSE ay
  IN IF mx >= my THEN mx ELSE my

\* C22 (purge beyond the cached radius): after an update no resident chunk
\* is farther than ZONE_CACHED from the viewer's chunk; the update removes
\* the chunks that were farther, their meshes from the scene too, and keeps
\* the others with their meshes; and a load that resolves is stored, its
\* mesh in the scene, wherever the viewer is.
C22_PurgeBeyondCached ==
  [][/\ clientLast'.op = "update" =>
          /\ \A k \in DOMAIN chunks' : DistTo(k, clientLast'.key) <= ZONE_CACHED
          /\ \A k \in DOMAIN chunks :
               IF DistTo(k, clientLast'.key) > ZONE_CACHED
               THEN k \notin DOMAIN chunks' /\ chunks[k].splatMesh \notin scene'
               ELSE /\ k \in DOMAIN chunks'
                    /\ chunks'[k].splatMesh = chunks[k].splatMesh
                    /\ chunks[k].splatMesh \in scene'
     /\ clientLast'.op = "loaded" =>
          /\ clientLast'.key \in DOMAIN chunks'
          /\ chunks'[clientLast'.key].splatMesh \in scene' \ scene
    ]_vars

\* the first load, of a chunk at distance 4, has resolved and an update at
\* 4,0 has removed the chunk and its mesh
C22_Witness ==
  /\ clientLast.op = "update" /\ clientLast.key = << 4, 0 >>
  /\ clientLast.sent = << << 4, 0 >> >> /\ dispatched = 2
  /\ chunks = NoMap /\ scene = {}
  /\ \A l \in BagToSet(loads) : l.mesh = 2

\* the fade of a chunk; a mesh that no update has seen yet is opaque
FadeOf(chunk) == IF chunk.fade = NoFade THEN FadeUnit ELSE chunk.fade
\* the target fade of key k for a viewer in chunk v
TargetOf(k, v) == IF DistTo(k, v) <= ZONE_ACTIVE THEN FadeUnit ELSE 0
\* the chunks a step keeps
Kept == {k \in DOMAIN chunks \cap DOMAIN chunks' :
           chunks'[k].splatMesh = chunks[k].splatMesh}

\* C23 (fade step): in an update the fade of every chunk that stays is in
\* [0, 1] afterwards, has moved by at most FADE_SPEED * dt with dt at most
\* 0.1 s, lies between its old value and the target, and is the target if
\* it was; no other step changes a fade.
C23_FadeStep ==
  [][\A k \in Kept :
       LET f0 == FadeOf(chunks[k])
           f1 == chunks'[k].fade
           target == TargetOf(k, clientLast'.key)
           dt == clientLast'.dt
       IN IF clientLast'.op = "update"
          THEN /\ 0 <= f1 /\ f1 <= FadeUnit
               /\ 0 <= dt /\ dt <= MaxDt
               /\ (f1 - f0) * TimeUnit <= FADE_SPEED * dt * FadeUnit
               /\ (f0 - f1) * TimeUnit <= FADE_SPEED * dt * FadeUnit
               /\ f0 <= target => (f0 <= f1 /\ f1 <= target)
               /\ f0 >= target => (target <= f1 /\ f1 <= f0)
          ELSE chunks'[k].fade = chunks[k].fade
    ]_vars

\* an update with the capped dt has left a chunk with a fade strictly
\* between 0 and 1
C23_Witness ==
  /\ clientLast.op = "update" /\ clientLast.dt = MaxDt
  /\ \E k \in DOMAIN chunks : 0 < chunks[k].fade /\ chunks[k].fade < FadeUnit

\* the zone of distance d
ZoneOf(k, v) == IF DistTo(k, v) <= ZONE_ACTIVE THEN "active" ELSE "cached"
Dev(a, b) == IF a >= b THEN a - b ELSE b - a

C25_ZoneSettles ==
  [][\A k \in Kept :
       LET f1 == chunks'[k].fade IN
       IF clientLast'.op = "update"
       THEN /\ chunks'[k].zone # chunks[k].zone =>
                 \/ chunks'[k].zone = "active" /\ f1 = FadeUnit
                 \/ chunks'[k].zone = "cached" /\ f1 = 0
            /\ (0 < f1 /\ f1 < FadeUnit) => chunks'[k].zone = chunks[k].zone
            /\ chunks'[k].visible <=> 1000 * f1 > FadeUnit
       ELSE chunks'[k].zone = chunks[k].zone /\ chunks'[k].visible = chunks[k].visible
    ]_vars

\* C25 as amended: the fade counts as settled within 0.001 of its bound.
C25_ZoneSettlesAmended ==
  [][\A k \in Kept :
       LET f1 == chunks'[k].fade IN
       IF clientLast'.op = "update"
       THEN /\ chunks'[k].zone # chunks[k].zone =>
                 \/ chunks'[k].zone = "active" /\ 1000 * f1 >= 999 * FadeUnit
                 \/ chunks'[k].zone = "cached" /\ 1000 * f1 <= FadeUnit
            /\ (1000 * f1 > FadeUnit /\ 1000 * f1 < 999 * FadeUnit) =>
                 chunks'[k].zone = chunks[k].zone
            /\ chunks'[k].visible <=> 1000 * f1 > FadeUnit
       ELSE chunks'[k].zone = chunks[k].zone /\ chunks'[k].visible = chunks[k].visible
    ]_vars

\* a chunk that had faded out is labelled active again with its fade within
\* 0.001 of 1 and not yet 1
C25_Witness ==
  /\ clientLast.op = "update"
  /\ \E k \in DOMAIN chunks :
       /\ 1000 * chunks[k].fade >= 999 * FadeUnit /\ chunks[k].fade < FadeUnit
       /\ chunks[k].zone = "active" /\ chunks[k].visible

\* C26 (purgeAll): after purgeAll, called directly or by changePrompt, no
\* chunk is resident, no key is pending, no failure is recorded, no
\* placeholder is left and the mesh of every chunk that was resident is out
\* of the scene.
C26_PurgeAll ==
  [][clientLast'.op \in {"purge", "prompt"} =>
       /\ chunks' = NoMap /\ pendingLoads' = {} /\ failedLoads' = NoMap
       /\ wireframes' = {}
       /\ \A k \in DOMAIN chunks : chunks[k].splatMesh \notin scene'
    ]_vars

\* purgeAll has run with a chunk resident and a load pending
C26_Witness ==
  /\ clientLast.op = "purge" /\ clientLast.key # {}
  /\ loads # EmptyBag /\ pendingLoads = {} /\ scene = {}

\* C27 (reloadActiveChunks): removes every resident chunk with zone active
\* or cached, its mesh from the scene too, and leaves the pending set, the
\* placeholders, the failure map, the halt flag, the prompt and the loads
\* in flight as they are; a load that resolves afterwards is stored.
C27_ReloadActiveChunks ==
  [][/\ clientLast'.op = "reload" =>
          /\ \A k \in DOMAIN chunks :
               IF chunks[k].zone \in {"active", "cached"}
               THEN k \notin DOMAIN chunks' /\ chunks[k].splatMesh \notin scene'
               ELSE k \in DOMAIN chunks' /\ chunks'[k] = chunks[k]
          /\ DOMAIN chunks' \subseteq DOMAIN chunks
          /\ UNCHANGED << pendingLoads, wireframes, failedLoads, billingHalted, prompt,
                          loads >>
     /\ (clientLast.op = "reload" /\ clientLast'.op = "loaded") =>
          clientLast'.key \in DOMAIN chunks'
    ]_vars

\* reloadActiveChunks has removed a chunk and left the pending load and its
\* placeholder
C27_Witness ==
  /\ clientLast.op = "reload" /\ clientLast.key # {}
  /\ chunks = NoMap /\ scene = {}
  /\ pendingLoads # {} /\ wireframes = pendingLoads /\ loads # EmptyBag

\* changePrompt has purged the client
Purged ==
  /\ chunks' = NoMap /\ pendingLoads' = {} /\ failedLoads' = NoMap /\ wireframes' = {}
  /\ scene' \cap {chunks[k].splatMesh : k \in DOMAIN chunks} = {}

\* the step is a changePrompt; the step that takes its request from posts
\* is the server's
PromptStep == clientLast'.op = "prompt" /\ posts' >= posts

\* C28 (prompt switch leaves the server untouched): changePrompt purges the
\* client, halted or not, and neither the call nor the request it sends
\* changes a row of the server.
C28_PromptSwitch ==
  [][/\ PromptStep => (Purged /\ db' = db)
     /\ posts' < posts => db' = db
    ]_vars

\* C28 as amended: changePrompt sends a request only when halted; if the
\* server is halted the request deletes the rows with status billing_error;
\* no other row changes.
C28_PromptSwitchAmended ==
  [][/\ PromptStep =>
          /\ Purged /\ db' = db
          /\ posts' # posts => billingHalted
     /\ posts' < posts =>
          \A k \in keys :
            db'[k] = IF apiError # NoError /\ db[k].status = "billing_error"
                     THEN NoRow ELSE db[k]
    ]_vars

\* the request of a changePrompt that purged a resident chunk has deleted a
\* row and left a completed one
C28_Witness ==
  /\ clientLast.op = "prompt" /\ clientLast.key # {} /\ chunks = NoMap
  /\ last.op = "clear" /\ posts = 0
  /\ \E k \in keys : db[k] = NoRow
  /\ \E k \in keys : db[k].status = "completed"

\* the coordinates an update attempts, in the order of its attempts: the
\* viewer's, and with a chunk resident the others within ZONE_ACTIVE, by
\* column and row, and the predicted ones
Attempts ==
  LET v == clientLast'.key
      w == 2 * ZONE_ACTIVE + 1
      grid == [i \in 1..(w * w) |->
                 << v[1] + ((i - 1) \div w) - ZONE_ACTIVE,
                    v[2] + ((i - 1) % w) - ZONE_ACTIVE >>]
  IN IF chunks = NoMap THEN << v >>
     ELSE << v >> \o SelectSeq(grid, LAMBDA k : k # v) \o clientLast'.predicted

\* key k would be dispatched by a request
Requestable(k) ==
  /\ ~billingHalted
  /\ k \notin DOMAIN chunks \cup pendingLoads
  /\ ~(k \in DOMAIN failedLoads /\ date - failedLoads[k] < RETRY_COOLDOWN_MS)

\* the attempts that are the first for a requestable key
Picks ==
  {i \in 1..Len(Attempts) :
     /\ Requestable(Attempts[i])
     /\ \A j \in 1..(i - 1) : Attempts[j] # Attempts[i]}

\* C29 (update request order): an update calls loadChunk for the
\* requestable coordinates in the order of its attempts, the viewer's first,
\* as far as pending slots are free; so for no other coordinate than the
\* viewer's while no chunk is resident.
C29_UpdateOrder ==
  [][clientLast'.op = "update" =>
       LET free == MAX_PENDING_LOADS - Cardinality(pendingLoads)
           n == IF Cardinality(Picks) <= free THEN Cardinality(Picks)
                ELSE IF free < 0 THEN 0 ELSE free
       IN /\ Len(clientLast'.sent) = n
          /\ \A m \in 1..n :
               \E i \in Picks : /\ Cardinality({j \in Picks : j < i}) = m - 1
                                 /\ clientLast'.sent[m] = Attempts[i]
    ]_vars

\* with every chunk within the radius resident an update has called
\* loadChunk for the predicted coordinate
C29_Witness ==
  /\ clientLast.op = "update" /\ clientLast.predicted # << >>
  /\ clientLast.sent = clientLast.predicted
  /\ GridKeys \subseteq DOMAIN chunks

\* what the response to a poll is taken for
Skipped(r) == ~r.net \/ (~r.ok /\ r.status # "billing_error")
Classified(r) ==
  IF r.net /\ r.status = "billing_error" THEN "billing"
  ELSE IF Skipped(r) THEN "none"
  ELSE IF r.status = "completed" /\ r.spz THEN "asset"
  ELSE IF r.status = "error" THEN "generation"
  ELSE "none"

\* C30: after the initial query, polling makes at most maxAttempts (200)
\* polls and ends with exactly one outcome: the asset reference when a poll
\* reports completed with an asset, a billing failure when a poll or the
\* initial query reports billing_error, a generation failure when a poll
\* reports error, a timeout after the last attempt; a poll that fails at the
\* network level or has a non-OK response is skipped and counts as one
\* attempt; the call ends.
C30_PollingOutcome ==
  /\ [][/\ poller'.polls <= maxAttempts
        /\ poller.pc = "done" => poller' = poller
        /\ poller.pc = "initial" /\ poller'.resp.net
             /\ poller'.resp.status = "billing_error" =>
             poller'.pc = "done" /\ poller'.outcome = "billing"
        /\ poller.pc = "polling" /\ poller' # poller =>
             /\ poller'.polls = poller.polls + 1
             /\ poller'.outcome =
                  IF Classified(poller'.resp) # "none" THEN Classified(poller'.resp)
                  ELSE IF poller'.polls = maxAttempts THEN "timeout"
                  ELSE "none"
             /\ poller'.pc = IF poller'.outcome = "none" THEN "polling" ELSE "done"
             /\ Skipped(poller'.resp) /\ poller'.polls < maxAttempts =>
                  poller'.pc = "polling"]_vars
  /\ <>(poller.pc = "done")

\* the last attempt was skipped for a non-OK response that reports error,
\* and the polling timed out
C30_Witness ==
  /\ poller.pc = "done" /\ poller.outcome = "timeout" /\ poller.polls = maxAttempts
  /\ poller.resp.net /\ ~poller.resp.ok /\ poller.resp.status = "error"

\* a poll of the loader that the handler of GET /api/chunk answers
PollStep == poller.pc = "polling" /\ poller'.polls = poller.polls + 1

\* C31 (transient failure reaches the client): a loader that polls a chunk
\* whose job has ended with status error observes status error and fails
\* with a generation failure, the ChunkManager then has the coordinate in
\* its failure map, and the poll starts no new job for the chunk.
C31_TransientFailure ==
  [][/\ PollStep /\ db[PollKey].status = "error" /\ apiError = NoError =>
          /\ poller'.resp.status = "error"
          /\ poller'.pc = "done" /\ poller'.outcome = "generation"
          /\ db'[PollKey].status = "error"
          /\ UNCHANGED << generationQueue, jobs >>
     /\ clientLast'.op = "failed" /\ clientLast.op # "failed"
          /\ poller.outcome = "generation" =>
          PollCoord \in DOMAIN failedLoads'
    ]_vars

\* fetcher i has recomputed at its last call
AtTick(i) ==
  fetchers[i].frameCounter > 0 /\ fetchers[i].frameCounter % RecomputeEvery = 0
Cardinals(c) ==
  << << c[1] + 1, c[2] >>, << c[1] - 1, c[2] >>, << c[1], c[2] + 1 >>, << c[1], c[2] - 1 >> >>

\* C32 (predictive cadence): a call of getPredictedChunks that is not the
\* 30th, 60th, ... of its fetcher returns the last prediction and leaves it
\* as it is, whatever the viewer; before the 30th call that is the empty
\* list; the 30th, 60th, ... call returns what it stores as the prediction.
C32_PredictiveCadence ==
  [][\A i \in DOMAIN fetchers :
       fetchers'[i] # fetchers[i] =>
         LET f == fetchers[i]
             g == fetchers'[i]
         IN /\ g.frameCounter = f.frameCounter + 1
            /\ g.frameCounter % RecomputeEvery # 0 =>
                 g.result = f.lastPrediction /\ g.lastPrediction = f.lastPrediction
            /\ g.frameCounter < RecomputeEvery => g.result = << >>
            /\ g.frameCounter % RecomputeEvery = 0 => g.result = g.lastPrediction
    ]_vars

\* the 31st call, of a fast viewer in another chunk, has returned the
\* neighbors of the chunk of the slow viewer of the 30th call
C32_Witness ==
  /\ fetchers[1].frameCounter = RecomputeEvery + 1
  /\ fetchers[1].viewer.chunk = << 2, -1 >> /\ fetchers[1].viewer.speed >= SlowSpeed
  /\ fetchers[1].result = Cardinals(<< 0, 0 >>)

\* C33 (predictive determinism): two fetchers that have recomputed for the
\* same viewer chunk, velocity and forward direction have returned the same
\* list in the same order, and a recomputed list has no coordinate twice.
C33_PredictiveDeterminism ==
  /\ \A i, j \in DOMAIN fetchers :
       AtTick(i) /\ AtTick(j) /\ fetchers[i].viewer = fetchers[j].viewer =>
         fetchers[i].result = fetchers[j].result
  /\ \A i \in DOMAIN fetchers :
       AtTick(i) =>
         \A a, b \in 1..Len(fetchers[i].result) :
           fetchers[i].result[a] = fetchers[i].result[b] => a = b

\* a fetcher at its first and one at its second recomputation have
\* returned the same list for a diagonal walk, whose second step repeats
\* the coordinates of the first
C33_Witness ==
  /\ fetchers[1].frameCounter = RecomputeEvery
  /\ fetchers[2].frameCounter = 2 * RecomputeEvery
  /\ fetchers[1].viewer = fetchers[2].viewer
  /\ fetchers[1].viewer.speed = 50 /\ fetchers[1].viewer.forward = [x |-> 707, z |-> 707]
  /\ Len(fetchers[2].result) = 3

\* ceil(speed * latency / tile size), clamped
Reach(speed) ==
  LET c == CHOOSE m \in 0..speed :
             /\ m * CHUNK_SIZE * SpeedUnit >= speed * WORST_CASE_LATENCY_S
             /\ (m - 1) * CHUNK_SIZE * SpeedUnit < speed * WORST_CASE_LATENCY_S
  IN IF c < MIN_PREDICT_DISTANCE THEN MIN_PREDICT_DISTANCE
     ELSE IF c > MAX_PREDICT_DISTANCE THEN MAX_PREDICT_DISTANCE
     ELSE c

\* C34 (predictive reach): a recomputation for a speed below the threshold
\* returns the four cardinal neighbors of the viewer's chunk; for another
\* speed it returns the coordinates of the spreads -1, 0, 1 of the steps
\* 1..ceil(speed * latency / tile size), clamped to [MIN_PREDICT_DISTANCE,
\* MAX_PREDICT_DISTANCE], between 1 and 3 * MAX_PREDICT_DISTANCE of them.
C34_PredictiveReach ==
  \A i \in DOMAIN fetchers :
    AtTick(i) =>
      LET v == fetchers[i].viewer
          r == fetchers[i].result
      IN IF v.speed < SlowSpeed
         THEN r = Cardinals(v.chunk)
         ELSE /\ {r[a] : a \in 1..Len(r)} =
                   {spreadCoord(v.chunk[1], v.chunk[2], v.forward, step, spread) :
                      step \in 1..Reach(v.speed), spread \in {-1, 0, 1}}
              /\ Len(r) >= 1 /\ Len(r) <= 3 * MAX_PREDICT_DISTANCE

\* a recomputation at speed 4.8, whose reach of 11 steps is clamped to 2,
\* has returned six coordinates
C34_Witness ==
  /\ AtTick(1) /\ fetchers[1].viewer.speed = 480
  /\ fetchers[1].viewer.forward = [x |-> 1000, z |-> 0]
  /\ fetchers[1].viewer.chunk = << 0, 0 >>
  /\ fetchers[1].result =
       << << 1, -1 >>, << 1, 0 >>, << 1, 1 >>, << 2, -1 >>, << 2, 0 >>, << 2, 1 >> >>

\* the jobs of key k that are in flight
InFlight(k) == {j \in jobs : j.key = k}

\* C35 (no orphaned generating rows): each row with status generating has
\* a job of its key in the queue or in flight.
C35_NoOrphanedGenerating ==
  \A k \in keys :
    db[k].status = "generating" =>
      Queued(generationQueue, k) # {} \/ InFlight(k) # {}

\* C36 (at most one job per key): of each key at most one job is queued or
\* in flight.
C36_OneJobPerKey ==
  \A k \in keys :
    Cardinality(Queued(generationQueue, k)) + Cardinality(InFlight(k)) <= 1

\* C37 (queue progress): while the halt flag is never set and the provider
\* calls return, a non-empty queue always has a job in flight or a drain
\* re-check scheduled; every enqueued job is started and every started job
\* finishes, so that the queue and the set of running jobs are empty again
\* and again; and a job finishes with its row in status completed or error.
C37_QueueProgress ==
  /\ [](generationQueue # << >> => jobs # {} \/ timers # EmptyBag)
  /\ []<>(generationQueue = << >> /\ jobs = {})
  /\ [][last'.op \in {"done", "fail"} =>
          db'[last'.key].status \in {"completed", "error"}]_vars

\* the loadChunk calls whose promise is settled in the step
Settled == BagToSet(loads (-) loads')

\* C38 (no stale-prompt chunks): the result of a load that was issued under
\* another prompt than the manager's current one is not stored as a
\* resident chunk.
C38_NoStalePrompt ==
  [][clientLast'.op = "loaded" =>
       \A l \in Settled :
         l.prompt # prompt =>
           l.key \notin DOMAIN chunks' \/ chunks'[l.key].splatMesh # l.mesh]_vars

\* the coordinates with a loadChunk call in flight
Loading == {l.key : l \in BagToSet(loads)}

\* C39 (pending set tracks in-flight loads): the pending set is the set of
\* coordinates with a loadChunk call in flight, at most MAX_PENDING_LOADS
\* calls are in flight, and no coordinate has two.
C39_PendingTracksLoads ==
  /\ pendingLoads = Loading
  /\ BagCardinality(loads) <= MAX_PENDING_LOADS
  /\ \A l \in BagToSet(loads) :
       CopiesIn(l, loads) = 1 /\ \A m \in BagToSet(loads) : m.key = l.key => m = l

\* C40 (no orphaned renderables): each mesh in the scene is the mesh of
\* exactly one resident chunk.
C40_NoOrphanedRenderables ==
  \A m \in scene :
    Cardinality({k \in DOMAIN chunks : chunks[k].splatMesh = m}) = 1

====
